---- MODULE Spec2Model ----
(***************************************************************************)
(* A state-machine model of content-sync/content_sync.py: the webhook      *)
(* handler, the monitor loop and the two polling watchers, the flock on    *)
(* LOCK_FILE, the persisted fingerprint, the git synchronizer              *)
(* (process_update, local_submodules_sync, sync_one_submodule) and the     *)
(* publish pipeline (publish, mutate_staging).                             *)
(***************************************************************************)
EXTENDS Integers, Sequences, FiniteSets, TLC

(***************************************************************************)
(* Bounds of the model.                                                    *)
(***************************************************************************)
\* external events (pushes to a remote, edits of a working copy or of a
\* watched directory, webhook requests) in one behaviour
MaxExt == 1
\* commands that fail for an environmental reason in one behaviour
MaxFaults == 1
\* locked sections entered in one behaviour
MaxCycles == 2

(***************************************************************************)
(* File trees.  A path is a sequence of components, a file's text is a     *)
(* sequence of tokens, a tree is a function from the paths of its regular  *)
(* files to their texts.                                                   *)
(***************************************************************************)
Tok(k, n) == [k |-> k, n |-> n]

\* "</head>"
HeadClose == Tok("headclose", 0)
\* '  <script src="/app-config.js"></script>\n', the text inject_app_config_script adds
ScriptTag == Tok("scripttag", 0)
\* any other text holding the substring "app-config.js"
ConfigMention == Tok("mention", 0)
\* "function apiBase(path){ return path; }", the needle of patch_bootstrap_js
Stub == Tok("stub", 0)
\* the replacement of patch_bootstrap_js (it does not hold the needle)
Patched == Tok("patched", 0)
\* text that holds none of the substrings above; n tells texts apart
Plain(n) == Tok("text", n)
\* the text write_app_config writes for API base URL number n
ConfigAsset(n) == Tok("appconfig", n)

EmptyTree == [p \in {} |-> <<>>]

Range(s) == {s[i] : i \in DOMAIN s}

\* rsync's --exclude .git and the watchers' '".git" not in p.parts'
InGit(p) == ".git" \in Range(p)

HtmlNames == {"index.html", "a.html"}

\* Path.rglob("*.html")
IsHtml(p) == p[Len(p)] \in HtmlNames

AppConfigPath == <<"app-config.js">>

BootstrapPath == <<"js", "redpen-editor-bootstrap.js">>

Restrict(tree, S) == [p \in (DOMAIN tree) \cap S |-> tree[p]]

\* tree with file p written with text
WriteFile(tree, p, text) ==
    [q \in (DOMAIN tree) \cup {p} |-> IF q = p THEN text ELSE tree[q]]

\* rsync -a --delete --exclude .git src/ dst/ : dst keeps its own excluded
\* files, loses every other file that src lacks, and gets src's other files
RsyncExcludeGit(srcT, dstT) ==
    LET keep == {p \in DOMAIN dstT : InGit(p)}
        copy == {p \in DOMAIN srcT : ~InGit(p)}
    IN  [p \in keep \cup copy |-> IF p \in copy THEN srcT[p] ELSE dstT[p]]

\* rsync -a src/ dst/ with no --delete: dst keeps the files src lacks
RsyncMirrorKeeping(srcT, dstT) ==
    [p \in (DOMAIN srcT) \cup (DOMAIN dstT) |->
        IF p \in DOMAIN srcT THEN srcT[p] ELSE dstT[p]]

\* rsync -a --delete src/ dst/ : dst becomes src
RsyncMirror(srcT, dstT) == srcT

\* the API base URLs of the model: 0 is the empty string
ApiBases == {0, 1}

WriteAppConfig(tree, api) ==
    IF api = 0 THEN tree ELSE WriteFile(tree, AppConfigPath, <<ConfigAsset(api)>>)

\* '"app-config.js" in text'
MentionsConfig(text) ==
    \E i \in DOMAIN text : text[i].k \in {"scripttag", "mention"}

RECURSIVE ReplaceHeadClose(_)
\* text.replace("</head>", '  <script src="/app-config.js"></script>\n</head>')
ReplaceHeadClose(text) ==
    IF text = <<>> THEN <<>>
    ELSE IF Head(text) = HeadClose
         THEN <<ScriptTag, HeadClose>> \o ReplaceHeadClose(Tail(text))
         ELSE <<Head(text)>> \o ReplaceHeadClose(Tail(text))

\* the injection without the test for an earlier reference
InjectTextAgain(text) == ReplaceHeadClose(text)

InjectText(text) ==
    IF MentionsConfig(text) THEN text ELSE ReplaceHeadClose(text)

InjectAppConfigScript(tree) ==
    [p \in DOMAIN tree |-> IF IsHtml(p) THEN InjectText(tree[p]) ELSE tree[p]]

RECURSIVE ReplaceStub(_)
\* s.replace(needle, replacement)
ReplaceStub(text) ==
    IF text = <<>> THEN <<>>
    ELSE IF Head(text) = Stub
         THEN <<Patched>> \o ReplaceStub(Tail(text))
         ELSE <<Head(text)>> \o ReplaceStub(Tail(text))

PatchBootstrapJs(tree) ==
    IF BootstrapPath \in DOMAIN tree
    THEN [tree EXCEPT ![BootstrapPath] = ReplaceStub(@)]
    ELSE tree

MutateStaging(tree, api) ==
    PatchBootstrapJs(InjectAppConfigScript(WriteAppConfig(tree, api)))

\* subprocess.call(["rm", "-rf", staging_dir]) and staging_dir.mkdir()
RemoveTree(tree) == EmptyTree

\* publish(), l.101-106: what staging holds after the first mirror and the mutation
Staged(srcT, stagingT, api) ==
    MutateStaging(RsyncExcludeGit(srcT, RemoveTree(stagingT)), api)

(***************************************************************************)
(* Git state.  The parent repository is a pair of versions: remote, the    *)
(* tip of origin/<ref>, and head, the local HEAD.  A submodule is          *)
(*   otip      the number of commits on origin/<branch>,                   *)
(*   base      the commit of origin/<branch> the local branch is based on, *)
(*   ahead     the local commits that origin lacks,                        *)
(*   dirty     uncommitted changes of tracked files in the worktree,       *)
(*   conflict  origin's commits past base touch the lines the local work   *)
(*             touches,                                                    *)
(*   rebasing  a rebase stopped in the worktree and was not aborted,       *)
(*   attached  HEAD is the local branch <branch>; otherwise HEAD is        *)
(*             detached, as git submodule update leaves it, and base and   *)
(*             ahead tell where the detached HEAD is,                      *)
(*   lbase,    where the local branch <branch> is while HEAD is detached:  *)
(*   lahead    its commit of origin and its commits that origin lacks      *)
(*             (both 0 while HEAD is attached).                            *)
(* A command fails when its site <<i, name>> (i the submodule, 0 the       *)
(* parent) is in the set F of sites the environment fails, or when git     *)
(* itself refuses it in that state.  Every command run is logged with its  *)
(* outcome, as run() and run_capture() log every command.                  *)
(***************************************************************************)
NSubs == 2

SubIds == 1..NSubs

\* list_submodules(): the descriptors, in the order of .gitmodules
ListSubmodules == [i \in SubIds |-> i]

\* a submodule as git clone --recursive leaves it: the local branch at
\* origin's tip, HEAD detached at the recorded commit
CleanSub == [otip |-> 0, base |-> 0, ahead |-> 0, dirty |-> FALSE,
             conflict |-> FALSE, rebasing |-> FALSE,
             attached |-> FALSE, lbase |-> 0, lahead |-> 0]

\* a submodule in which somebody has checked the branch out
BranchSub == [CleanSub EXCEPT !.attached = TRUE]

CmdOk(F, i, c) == <<i, c>> \notin F

Entry(i, c, ok) == <<i, c, ok>>

Result(s, ok, log) == [s |-> s, ok |-> ok, log |-> log]

\* has_worktree_changes(): False when git status fails
HasWorktreeChanges(F, i, site, s) == CmdOk(F, i, site) /\ s.dirty

\* git add -A; git commit
GitCommit(s) == [s EXCEPT !.dirty = FALSE, !.ahead = @ + 1]

\* whether git pull --rebase origin <branch> succeeds in s
PullRebaseOk(s) ==
    /\ ~s.dirty
    /\ ~s.rebasing
    /\ ~(s.base < s.otip /\ s.ahead > 0 /\ s.conflict)

\* git pull --rebase origin <branch>: fast-forward or replay on success; a
\* conflict leaves the rebase stopped in the worktree; any other failure
\* leaves the submodule as it was
GitPullRebase(s, cmdOk) ==
    IF cmdOk /\ PullRebaseOk(s)
    THEN [s EXCEPT !.base = s.otip, !.conflict = FALSE]
    ELSE IF cmdOk /\ ~s.dirty /\ ~s.rebasing
         THEN [s EXCEPT !.rebasing = TRUE]
         ELSE s

\* git rebase --abort: the pre-rebase branch and worktree are restored
GitRebaseAbort(s) == [s EXCEPT !.rebasing = FALSE]

\* ahead_behind(): (0, 0) when the fetch or the rev-list fails
AheadBehind(F, i, s) ==
    IF CmdOk(F, i, "ab_fetch") /\ CmdOk(F, i, "rev-list")
    THEN <<s.ahead, s.otip - s.base>>
    ELSE <<0, 0>>

AheadBehindLog(F, i) ==
    IF CmdOk(F, i, "ab_fetch")
    THEN <<Entry(i, "ab_fetch", TRUE), Entry(i, "rev-list", CmdOk(F, i, "rev-list"))>>
    ELSE <<Entry(i, "ab_fetch", FALSE)>>

\* git push origin <branch> pushes the local branch <branch>, which is HEAD
\* only when HEAD is attached; it is accepted when the branch contains
\* origin's tip, and is a no-op when the branch is origin's tip
PushAccepted(s) ==
    /\ ~s.rebasing
    /\ IF s.attached THEN s.base = s.otip ELSE s.lbase = s.otip

GitPush(s) ==
    IF s.attached
    THEN [s EXCEPT !.otip = s.otip + s.ahead, !.base = s.otip + s.ahead, !.ahead = 0]
    ELSE [s EXCEPT !.otip = s.otip + s.lahead, !.lbase = s.otip + s.lahead,
                   !.lahead = 0]

\* sync_one_submodule, l.356-375: push when ahead or still dirty, with one
\* retry that sets the upstream
PushStep(F, i, s, log) ==
    LET ab == AheadBehind(F, i, s)
        log1 == log \o AheadBehindLog(F, i)
        stillDirty == ab[1] = 0 /\ HasWorktreeChanges(F, i, "status2", s)
        log2 == IF ab[1] = 0
                THEN log1 \o <<Entry(i, "status2", CmdOk(F, i, "status2"))>>
                ELSE log1
        ok1 == CmdOk(F, i, "push") /\ PushAccepted(s)
        ok2 == CmdOk(F, i, "push-u") /\ PushAccepted(s)
    IN  IF ~(ab[1] > 0 \/ stillDirty) THEN Result(s, TRUE, log2)
        ELSE IF ok1 THEN Result(GitPush(s), TRUE, log2 \o <<Entry(i, "push", TRUE)>>)
        ELSE IF ok2
             THEN Result(GitPush(s), TRUE,
                         log2 \o <<Entry(i, "push", FALSE), Entry(i, "push-u", TRUE)>>)
             ELSE Result(s, FALSE,
                         log2 \o <<Entry(i, "push", FALSE), Entry(i, "push-u", FALSE)>>)

\* the failed pull left as it is, with no git rebase --abort
LeaveFailedRebase(s) == s

\* what the failed pull leaves is handed to git rebase --abort
AbortFailedRebase(s) == GitRebaseAbort(s)

\* sync_one_submodule, l.336-354: fetch, rebase; on a failed rebase list the
\* conflicting paths, abort the rebase and fail
RebaseStep(F, i, s, log) ==
    IF ~CmdOk(F, i, "fetch")
    THEN Result(s, FALSE, log \o <<Entry(i, "fetch", FALSE)>>)
    ELSE LET pulled == GitPullRebase(s, CmdOk(F, i, "pull"))
             pullOk == CmdOk(F, i, "pull") /\ PullRebaseOk(s)
             log1 == log \o <<Entry(i, "fetch", TRUE), Entry(i, "pull", pullOk)>>
         IN  IF pullOk THEN PushStep(F, i, pulled, log1)
             ELSE Result(AbortFailedRebase(pulled), FALSE,
                         log1 \o <<Entry(i, "diff", CmdOk(F, i, "diff")),
                                   Entry(i, "rebase-abort", pulled.rebasing)>>)

\* sync_one_submodule, l.324-334: commit the local changes
CommitStep(F, i, s) ==
    LET st == <<Entry(i, "status", CmdOk(F, i, "status"))>>
    IN  IF ~HasWorktreeChanges(F, i, "status", s) THEN Result(s, TRUE, st)
        ELSE IF ~CmdOk(F, i, "add")
             THEN Result(s, FALSE, st \o <<Entry(i, "add", FALSE)>>)
        ELSE IF ~CmdOk(F, i, "commit")
             THEN Result(s, FALSE,
                         st \o <<Entry(i, "add", TRUE), Entry(i, "commit", FALSE)>>)
             ELSE Result(GitCommit(s), TRUE,
                         st \o <<Entry(i, "add", TRUE), Entry(i, "commit", TRUE)>>)

SyncOneSubmodule(F, i, s) ==
    LET c == CommitStep(F, i, s)
    IN  IF c.ok THEN RebaseStep(F, i, c.s, c.log) ELSE c

\* overall_ok = ok: the last submodule decides
AccumulateLast(overall, ok) == ok

\* overall_ok = overall_ok and ok
Accumulate(overall, ok) == overall /\ ok

RECURSIVE SyncFrom(_, _, _, _, _)
\* the loop of local_submodules_sync from descriptor k on
SyncFrom(F, k, subs, overall, log) ==
    IF k > NSubs THEN [subs |-> subs, ok |-> overall, log |-> log]
    ELSE LET r == SyncOneSubmodule(F, ListSubmodules[k], subs[ListSubmodules[k]])
         IN  SyncFrom(F, k + 1, [subs EXCEPT ![ListSubmodules[k]] = r.s],
                      Accumulate(overall, r.ok), log \o r.log)

\* local_submodules_sync returning True whatever the submodules returned
LocalSubmodulesSyncTrue(F, subs) == [SyncFrom(F, 1, subs, TRUE, <<>>) EXCEPT !.ok = TRUE]

\* local_submodules_sync()
LocalSubmodulesSync(F, subs) == SyncFrom(F, 1, subs, TRUE, <<>>)

(***************************************************************************)
(* process_update after the submodule sync: the parent checkout, the       *)
(* submodule update and the reset of every submodule to origin/<branch>.   *)
(***************************************************************************)
\* the submodule commit that version v of the parent records for submodule i
Recorded(v, i) == 0

\* git refuses to check another commit out over local changes to the same lines
CheckoutRefused(s, target) ==
    s.dirty /\ s.conflict /\ ~(s.ahead = 0 /\ s.base = target)

\* the submodule checked out at commit target of origin: nothing when HEAD is
\* that commit already; otherwise HEAD is detached there, and the local
\* branch stays where it was, the local commits with it
CheckedOut(s, target) ==
    IF s.ahead = 0 /\ s.base = target
    THEN [s EXCEPT !.conflict = IF target = s.otip THEN FALSE ELSE s.conflict]
    ELSE [s EXCEPT !.base = target, !.ahead = 0,
                   !.conflict = IF target = s.otip THEN FALSE ELSE s.conflict,
                   !.attached = FALSE,
                   !.lbase = IF s.attached THEN s.base ELSE s.lbase,
                   !.lahead = IF s.attached THEN s.ahead ELSE s.lahead]

\* git submodule update --init --recursive --remote
UpdateRemoteOk(F, subs) ==
    CmdOk(F, 0, "update-remote") /\ \A i \in SubIds : ~CheckoutRefused(subs[i], subs[i].otip)

UpdateRemote(subs) == [i \in SubIds |-> CheckedOut(subs[i], subs[i].otip)]

\* git submodule update --init --recursive
UpdateRecordedOk(F, v, subs) ==
    CmdOk(F, 0, "update") /\ \A i \in SubIds : ~CheckoutRefused(subs[i], Recorded(v, i))

UpdateRecorded(v, subs) == [i \in SubIds |-> CheckedOut(subs[i], Recorded(v, i))]

\* process_update, l.140-156: the configured strategy, every failure swallowed
SubmoduleUpdate(F, strategy, v, subs) ==
    IF strategy = "remote"
    THEN IF UpdateRemoteOk(F, subs)
         THEN [subs |-> UpdateRemote(subs),
               log |-> <<Entry(0, "update-remote", TRUE)>>]
         ELSE IF UpdateRecordedOk(F, v, subs)
              THEN [subs |-> UpdateRecorded(v, subs),
                    log |-> <<Entry(0, "update-remote", FALSE), Entry(0, "update", TRUE)>>]
              ELSE [subs |-> subs,
                    log |-> <<Entry(0, "update-remote", FALSE), Entry(0, "update", FALSE)>>]
    ELSE IF UpdateRecordedOk(F, v, subs)
         THEN [subs |-> UpdateRecorded(v, subs), log |-> <<Entry(0, "update", TRUE)>>]
         ELSE [subs |-> subs, log |-> <<Entry(0, "update", FALSE)>>]

\* git reset --hard origin/<branch> in a submodule
GitResetHard(s) == [s EXCEPT !.base = s.otip, !.ahead = 0, !.dirty = FALSE,
                             !.conflict = FALSE]

\* process_update, l.160-167, for one submodule
ForceCleanOne(F, i, s) ==
    IF ~CmdOk(F, i, "fc_fetch")
    THEN [s |-> s, log |-> <<Entry(i, "fc_fetch", FALSE)>>]
    ELSE IF ~CmdOk(F, i, "fc_reset")
         THEN [s |-> s, log |-> <<Entry(i, "fc_fetch", TRUE), Entry(i, "fc_reset", FALSE)>>]
         ELSE [s |-> GitResetHard(s),
               log |-> <<Entry(i, "fc_fetch", TRUE), Entry(i, "fc_reset", TRUE)>>]

RECURSIVE ForceCleanFrom(_, _, _, _)
ForceCleanFrom(F, k, subs, log) ==
    IF k > NSubs THEN [subs |-> subs, log |-> log]
    ELSE LET r == ForceCleanOne(F, ListSubmodules[k], subs[ListSubmodules[k]])
         IN  ForceCleanFrom(F, k + 1, [subs EXCEPT ![ListSubmodules[k]] = r.s],
                            log \o r.log)

\* the reconciliation with a failed submodule update left to raise
ReconcileRaising(F, strategy, v, subs, log) ==
    LET syncLog == <<Entry(0, "submodule-sync", CmdOk(F, 0, "submodule-sync"))>>
        u == SubmoduleUpdate(F, strategy, v, subs)
        c == ForceCleanFrom(F, 1, u.subs, log \o syncLog \o u.log)
    IN  IF Entry(0, "update", FALSE) \in Range(u.log)
        THEN [head |-> v, subs |-> subs, raised |-> TRUE, log |-> log \o syncLog \o u.log]
        ELSE [head |-> v, subs |-> c.subs, raised |-> FALSE, log |-> c.log]

\* process_update, l.134-169: nothing here fails the cycle
Reconcile(F, strategy, v, subs, log) ==
    LET syncLog == <<Entry(0, "submodule-sync", CmdOk(F, 0, "submodule-sync"))>>
        u == SubmoduleUpdate(F, strategy, v, subs)
        c == ForceCleanFrom(F, 1, u.subs, log \o syncLog \o u.log)
    IN  [head |-> v, subs |-> c.subs, raised |-> FALSE, log |-> c.log]

\* the parent checkout with the failure of the fallback checkout swallowed
ParentCheckoutSwallowed(F, strategy, rem, hd, subs) ==
    IF ~CmdOk(F, 0, "fetch")
    THEN [head |-> hd, subs |-> subs, raised |-> TRUE,
          log |-> <<Entry(0, "fetch", FALSE)>>]
    ELSE IF CmdOk(F, 0, "reset")
         THEN Reconcile(F, strategy, rem, subs,
                        <<Entry(0, "fetch", TRUE), Entry(0, "reset", TRUE)>>)
         ELSE Reconcile(F, strategy, hd, subs,
                        <<Entry(0, "fetch", TRUE), Entry(0, "reset", FALSE),
                          Entry(0, "checkout", CmdOk(F, 0, "checkout"))>>)

\* process_update, l.126-132: a failed fetch, or a failed reset followed by a
\* failed checkout, raises CalledProcessError out of process_update
ParentCheckout(F, strategy, rem, hd, subs) ==
    IF ~CmdOk(F, 0, "fetch")
    THEN [head |-> hd, subs |-> subs, raised |-> TRUE,
          log |-> <<Entry(0, "fetch", FALSE)>>]
    ELSE IF CmdOk(F, 0, "reset")
         THEN Reconcile(F, strategy, rem, subs,
                        <<Entry(0, "fetch", TRUE), Entry(0, "reset", TRUE)>>)
    ELSE IF CmdOk(F, 0, "checkout")
         THEN Reconcile(F, strategy, hd, subs,
                        <<Entry(0, "fetch", TRUE), Entry(0, "reset", FALSE),
                          Entry(0, "checkout", TRUE)>>)
         ELSE [head |-> hd, subs |-> subs, raised |-> TRUE,
               log |-> <<Entry(0, "fetch", TRUE), Entry(0, "reset", FALSE),
                         Entry(0, "checkout", FALSE)>>]

(***************************************************************************)
(* The repository's worktree as a file tree: what publish mirrors.         *)
(***************************************************************************)
SubDirs == <<"redpen-content", "redpen-publish", "sub3", "sub4">>

\* the text of a submodule's worktree files
SubText(s) == <<Plain(s.base), Plain(s.ahead), Plain(IF s.dirty THEN 1 ELSE 0)>>

RepoTree(hd, subs) ==
    LET parent == {<<".git", "HEAD">>, <<"index.html">>, BootstrapPath}
        subGit == {<<SubDirs[i], ".git">> : i \in SubIds}
        subFile == {<<SubDirs[i], "a.html">> : i \in SubIds}
        idx(p) == CHOOSE i \in SubIds : p[1] = SubDirs[i]
    IN  [p \in parent \cup subGit \cup subFile |->
            IF p = <<"index.html">> THEN <<HeadClose, Plain(hd)>>
            ELSE IF p = BootstrapPath THEN <<Stub>>
            ELSE IF p \in subFile THEN <<HeadClose>> \o SubText(subs[idx(p)])
            ELSE <<Plain(0)>>]


(***************************************************************************)
(* The repository fingerprint.                                             *)
(***************************************************************************)
\* git status --porcelain of the parent: a submodule off its recorded commit,
\* or with local changes, shows as modified
ParentDirty(hd, subs) ==
    \E i \in SubIds : subs[i].dirty \/ subs[i].ahead > 0 \/ subs[i].base # Recorded(hd, i)

\* compute_fingerprint(): remote tip, local HEAD, dirty flag, submodule
\* status, the submodules' remote heads
ComputeFingerprint(rem, hd, subs) ==
    [remote |-> rem, local |-> hd,
     dirty |-> IF ParentDirty(hd, subs) THEN 1 ELSE 0,
     subs |-> [i \in SubIds |-> <<subs[i].base, subs[i].ahead>>],
     sub_remote_heads |-> [i \in SubIds |-> subs[i].otip]]

(***************************************************************************)
(* The state.                                                              *)
(***************************************************************************)
Triggers == {"webhook", "monitor", "public", "content"}

Watchers == {"public", "content"}

VARIABLES
    remote,     \* the parent's origin/<ref> tip
    head,       \* the parent's local HEAD
    sub,        \* the submodules
    strategy,   \* SUBMODULE_STRATEGY
    apiBase,    \* API_BASE_URL
    src,        \* the worktree of the repository, as publish reads it
    staging,    \* the staging root
    public,     \* the site files of the public root
    stamp,      \* .published_by_sync: 0 absent, 1 older than the loop guard, 2 within it
    lockIno,    \* the inode LOCK_FILE names, 0 when the file is absent
    fd,         \* per trigger, the inode of its open lock file, 0 when none
    locked,     \* the triggers whose flock(LOCK_EX) has returned and is not released
    fpFile,     \* FINGERPRINT_FILE: <<>> absent, or <<fingerprint>>
    pc,         \* per trigger, where it is
    ok,         \* per trigger, the outcome of its process_update
    log,        \* per trigger, the commands of its current locked section
    wrote,      \* per trigger, whether its current locked section wrote the fingerprint
    lastFp,     \* the monitor's last_fp
    monFp,      \* the monitor's new_fp
    lastDigest, \* per watcher, last_digest
    digest,     \* per watcher, digest and digest2
    copied,     \* per watcher, the directory state its submodule's worktree holds
    resp,       \* the webhook's last response
    ext,        \* external events so far
    faults,     \* failed commands so far
    cycles,     \* locked sections entered so far
    runs,       \* for the webhook and the monitor, what it has done since
                \* somebody last changed the repository: "none", "triggered",
                \* "called" once it has called process_update, "done" once
                \* that has returned True, and "again" in place of "called"
                \* when the other's had returned True and the other had
                \* released the lock
    limit,      \* what one behaviour holds of each: [ext, faults, cycles]
    watched,    \* a watched directory as stat() shows it: per file, mtime_ns and size
    refs        \* the refs of a submodule's clone that branch detection reads, and
                \* what detect_branch_for_submodule last returned from them

gitVars == <<remote, head, sub, src>>

treeVars == <<staging, public, stamp>>

lockVars == <<lockIno, fd, locked>>

\* what no step of the daemon writes: its configuration, and the stat data
\* of the files of a watched directory
cfgVars == <<strategy, apiBase, limit, watched, refs>>

monVars == <<lastFp, monFp>>

dirVars == <<lastDigest, digest, copied>>

vars == <<remote, head, sub, strategy, apiBase, src, staging, public, stamp,
          lockIno, fd, locked, fpFile, pc, ok, log, wrote, lastFp, monFp,
          lastDigest, digest, copied, resp, ext, faults, cycles, runs, limit,
          watched, refs>>

(***************************************************************************)
(* Ref names and the output of git are kept as the sequence of their       *)
(* "/"-separated components: "origin/rel/1" is <<"origin", "rel", "1">>    *)
(* and the empty output is <<>>.                                           *)
(***************************************************************************)
BranchNames == {<<"main">>, <<"rel", "1">>}

\* what a local branch tracks: nothing, a branch of origin, or a local branch
NoUpstream == [kind |-> "none", name |-> <<>>]

Upstreams == {NoUpstream} \cup [kind : {"remote", "local"}, name : BranchNames]

\* the refs of a submodule as git clone --recursive leaves it: HEAD detached,
\* main tracking origin/main, origin/HEAD cached; no detection has run
ClonedRefs ==
    [head       |-> <<>>,
     tracking   |-> [b \in BranchNames |->
                        IF b = <<"main">> THEN [kind |-> "remote", name |-> b]
                        ELSE NoUpstream],
     originHead |-> <<"main">>,
     failed     |-> {},
     detected   |-> <<>>]

\* run_capture(): the stripped output of a command, or the exception of
\* check_output for a command that exits non-zero
Output(out) == [ok |-> TRUE, out |-> out]

Raised == [ok |-> FALSE, out |-> <<>>]

\* git rev-parse --abbrev-ref --symbolic-full-name @{u}: fatal when HEAD is
\* detached or the branch has no upstream; a local upstream is printed
\* without a remote in front
RevParseUpstream(r) ==
    IF r.head = <<>> THEN Raised
    ELSE LET u == r.tracking[r.head]
         IN  CASE u.kind = "none"   -> Raised
               [] u.kind = "remote" -> Output(<<"origin">> \o u.name)
               [] u.kind = "local"  -> Output(u.name)

\* git symbolic-ref --quiet --short HEAD: exit 1 when HEAD is detached
SymbolicRefHead(r) == IF r.head = <<>> THEN Raised ELSE Output(r.head)

\* git symbolic-ref -q --short refs/remotes/origin/HEAD
SymbolicRefOriginHead(r) ==
    IF r.originHead = <<>> THEN Raised ELSE Output(<<"origin">> \o r.originHead)

\* "/" in s
HasSlash(s) == Len(s) > 1

\* s.split("/", 1)[1]
AfterFirstSlash(s) == Tail(s)

\* s.startswith("origin/")
StartsWithOrigin(s) == Len(s) > 1 /\ s[1] = "origin"

\* the three queries of detect_branch_for_submodule
BranchQueries == {"upstream", "head", "origin-head"}

\* detect_branch_for_submodule(sub_dir) in a clone with refs r, the queries
\* of F failing for a reason of their own
DetectBranchForSubmodule(r, F) ==
    LET upstream == IF "upstream" \in F THEN Raised ELSE RevParseUpstream(r)
        br       == IF "head" \in F THEN Raised ELSE SymbolicRefHead(r)
        headref  == IF "origin-head" \in F THEN Raised ELSE SymbolicRefOriginHead(r)
    IN  IF upstream.ok /\ upstream.out # <<>> /\ HasSlash(upstream.out)
        THEN AfterFirstSlash(upstream.out)
        ELSE IF br.ok /\ br.out # <<>>
        THEN br.out
        ELSE IF headref.ok /\ headref.out # <<>> /\ StartsWithOrigin(headref.out)
        THEN AfterFirstSlash(headref.out)
        ELSE <<"main">>

\* the sets of at most k elements of S
RECURSIVE UpTo(_, _)
UpTo(S, k) ==
    IF k <= 0 THEN {{}}
    ELSE LET smaller == UpTo(S, k - 1)
         IN  smaller \cup {A \cup {x} : A \in smaller, x \in S}

\* the command sites of sync_one_submodule and of sync_source_to_submodule
SyncSites == SubIds \X {"status", "add", "commit", "fetch", "pull", "diff",
                        "ab_fetch", "rev-list", "status2", "push", "push-u"}

\* the command sites of process_update, l.126-169
CheckoutSites ==
    ({0} \X {"fetch", "reset", "checkout", "submodule-sync", "update-remote", "update"})
    \cup (SubIds \X {"fc_fetch", "fc_reset"})

PublishSites == {0} \X {"rsync-staging", "rsync-public"}

\* the failures the environment may still cause among sites
FaultChoices(sites) == UpTo(sites, limit.faults - faults)

\* every site of F failed a command of lg: F is what the step met
Met(F, lg) == \A x \in F : Entry(x[1], x[2], FALSE) \in Range(lg)

\* the step of trigger t ran the commands lg, F of them failed by the environment
Logged(t, F, lg) ==
    /\ Met(F, lg)
    /\ log' = [log EXCEPT ![t] = @ \o lg]
    /\ faults' = faults + Cardinality(F)

\* the git state after a command
GitState(rem, hd, subs) ==
    /\ remote' = rem
    /\ head' = hd
    /\ sub' = subs
    /\ src' = RepoTree(hd, subs)

\* A digest of a watched directory is kept as "current" while no file of the
\* directory has changed since it was computed and as "stale" from then on
\* (_compute_digest hashes every file's path, mtime_ns and size); the state a
\* submodule's worktree was copied from likewise.  "" is the empty last_digest.
Aged(d) == IF d = "current" THEN "stale" ELSE d

\* a file of the directory w watches is created, written or deleted
DirectoryChanges(w) ==
    /\ lastDigest' = [lastDigest EXCEPT ![w] = Aged(@)]
    /\ digest' = [digest EXCEPT ![w] = Aged(@)]
    /\ copied' = [copied EXCEPT ![w] = Aged(@)]

\* PUBLIC_DIR is /srv/public, where LOCK_FILE and FINGERPRINT_FILE live, and
\* PUBLIC_WATCH_DIR is PUBLIC_DIR
PublicChanges == DirectoryChanges("public")

TypeOK ==
    /\ remote \in Nat /\ head \in Nat
    /\ strategy \in {"remote", "recorded"}
    /\ apiBase \in ApiBases
    /\ stamp \in 0..2
    /\ lockIno \in Nat
    /\ locked \subseteq Triggers
    /\ Len(fpFile) <= 1
    /\ \A t \in Triggers : ok[t] \in {"none", "true", "false", "raised", "source-false"}
    /\ \A w \in Watchers : lastDigest[w] \in {"", "current", "stale"}

CleanSubs == [i \in SubIds |-> CleanSub]

\* the submodules at the start: as cloned, or with their branches checked out
InitSubs == {CleanSubs, [i \in SubIds |-> BranchSub]}

\* the daemon has started on a fresh clone
InitWorld ==
    /\ remote = 0 /\ head = 0
    /\ sub \in InitSubs
    /\ lockIno = 0
    /\ fd = [t \in Triggers |-> 0]
    /\ locked = {}
    /\ ok = [t \in Triggers |-> "none"]
    /\ log = [t \in Triggers |-> <<>>]
    /\ wrote = [t \in Triggers |-> FALSE]
    /\ lastFp = <<>>
    /\ monFp = <<>>
    /\ lastDigest = [w \in Watchers |-> ""]
    /\ digest = [w \in Watchers |-> "current"]
    /\ copied = [w \in Watchers |-> "current"]
    /\ resp = 0
    /\ ext = 0 /\ faults = 0 /\ cycles = 0
    /\ runs = [t \in {"webhook", "monitor"} |-> "none"]

\* no file in the directory whose stat data the model follows
NoFiles == [p \in {} |-> [mtime |-> 0, size |-> 0]]

\* nothing is published yet
InitTrees == staging = EmptyTree /\ public = EmptyTree /\ stamp = 0

Init ==
    /\ InitWorld
    /\ InitTrees
    /\ src = RepoTree(0, CleanSubs)
    /\ pc = [t \in Triggers |-> IF t = "monitor" THEN "start" ELSE "idle"]
    /\ strategy = "remote"
    /\ apiBase = 1
    /\ fpFile \in {<<>>, <<ComputeFingerprint(0, 0, CleanSubs)>>}
    /\ limit = [ext |-> MaxExt, faults |-> MaxFaults, cycles |-> MaxCycles]
    /\ watched = NoFiles
    /\ refs = ClonedRefs

\* no process_update call since the last change
NoRuns == [t \in {"webhook", "monitor"} |-> "none"]

\* a delivery or a tick after the change sets trigger t off
Triggered(t) == [runs EXCEPT ![t] = "triggered"]

\* trigger t calls process_update
Called(t) ==
    IF runs[t] # "triggered" THEN runs
    ELSE [runs EXCEPT ![t] = IF \E u \in DOMAIN runs :
                                   u # t /\ runs[u] = "done" /\ u \notin locked
                             THEN "again" ELSE "called"]

\* the process_update of trigger t returns True
Returned(t) ==
    IF t \in DOMAIN runs /\ runs[t] = "called" THEN [runs EXCEPT ![t] = "done"] ELSE runs

(***************************************************************************)
(* The lock: open(LOCK_FILE, "a+") and fcntl.flock on the open file.  A    *)
(* flock is held on the inode the descriptor names, not on the path.       *)
(***************************************************************************)
Inodes == 1..(Cardinality(Triggers) + 1)

Unused(n) == n # lockIno /\ \A t \in Triggers : fd[t] # n

\* the inode of a newly created file: one that no path and no descriptor names
FreshInode == CHOOSE n \in Inodes : Unused(n) /\ \A m \in Inodes : Unused(m) => n <= m

\* where a trigger goes once it holds the lock
AfterLock(t) ==
    IF t = "monitor" THEN "recheck" ELSE IF t = "webhook" THEN "sync" ELSE "src"

\* open(LOCK_FILE, "a+"): the file is created when the path names none
OpenLock(t) ==
    /\ pc[t] = "open"
    /\ IF lockIno = 0
       THEN lockIno' = FreshInode /\ fd' = [fd EXCEPT ![t] = FreshInode] /\ PublicChanges
       ELSE lockIno' = lockIno /\ fd' = [fd EXCEPT ![t] = lockIno] /\ UNCHANGED dirVars
    /\ pc' = [pc EXCEPT ![t] = "flock"]
    /\ UNCHANGED <<gitVars, treeVars, cfgVars, runs, monVars, locked, fpFile, ok, log,
                   wrote, resp, ext, faults, cycles>>

\* fcntl.flock(lf.fileno(), LOCK_EX) returns when no other descriptor holds a
\* lock on the same inode
FlockGranted(t) == \A u \in locked : fd[u] # fd[t]

\* a trigger that goes on without taking the lock
FlockSkipped(t) ==
    /\ pc[t] = "flock"
    /\ FlockGranted(t)
    /\ locked' = locked
    /\ pc' = [pc EXCEPT ![t] = AfterLock(t)]
    /\ runs' = IF t = "webhook" THEN Called(t) ELSE runs
    /\ UNCHANGED <<gitVars, treeVars, cfgVars, monVars, dirVars, lockIno, fd,
                   fpFile, ok, log, wrote, resp, ext, faults, cycles>>

Flock(t) ==
    /\ pc[t] = "flock"
    /\ FlockGranted(t)
    /\ locked' = locked \cup {t}
    /\ pc' = [pc EXCEPT ![t] = AfterLock(t)]
    /\ runs' = IF t = "webhook" THEN Called(t) ELSE runs
    /\ UNCHANGED <<gitVars, treeVars, cfgVars, monVars, dirVars, lockIno, fd,
                   fpFile, ok, log, wrote, resp, ext, faults, cycles>>

\* a loop without the except clause: an exception ends the trigger
UnlockExitsOnRaise(t) ==
    /\ pc[t] = "unlock"
    /\ locked' = locked \ {t}
    /\ fd' = [fd EXCEPT ![t] = 0]
    /\ pc' = [pc EXCEPT ![t] = IF ok[t] = "raised" THEN "exited" ELSE "idle"]
    /\ ok' = [ok EXCEPT ![t] = "none"]
    /\ log' = [log EXCEPT ![t] = <<>>]
    /\ wrote' = [wrote EXCEPT ![t] = FALSE]
    /\ resp' = IF t = "webhook" THEN (IF ok[t] = "raised" THEN 500 ELSE 200) ELSE resp
    /\ lastDigest' = IF t \in Watchers /\ ok[t] # "raised"
                     THEN [lastDigest EXCEPT ![t] = digest[t]]
                     ELSE lastDigest
    /\ UNCHANGED <<gitVars, treeVars, cfgVars, runs, monVars, lockIno, fpFile, digest,
                   copied, ext, faults, cycles>>

\* a locked section without the finally clause: an exception leaves the
\* lock held
UnlockUnlessRaised(t) ==
    /\ pc[t] = "unlock"
    /\ locked' = IF ok[t] = "raised" THEN locked ELSE locked \ {t}
    /\ fd' = IF ok[t] = "raised" THEN fd ELSE [fd EXCEPT ![t] = 0]
    /\ pc' = [pc EXCEPT ![t] = "idle"]
    /\ ok' = [ok EXCEPT ![t] = "none"]
    /\ log' = [log EXCEPT ![t] = <<>>]
    /\ wrote' = [wrote EXCEPT ![t] = FALSE]
    /\ resp' = IF t = "webhook" THEN (IF ok[t] = "raised" THEN 500 ELSE 200) ELSE resp
    /\ lastDigest' = IF t \in Watchers /\ ok[t] # "raised"
                     THEN [lastDigest EXCEPT ![t] = digest[t]]
                     ELSE lastDigest
    /\ UNCHANGED <<gitVars, treeVars, cfgVars, runs, monVars, lockIno, fpFile, digest,
                   copied, ext, faults, cycles>>

\* the finally clause and the end of the with block, then what the trigger
\* does before it polls again: the webhook answers 200 (500 stands for the
\* exception that leaves do_POST), a watcher that met no exception sets
\* last_digest = digest2
Unlock(t) ==
    /\ pc[t] = "unlock"
    /\ locked' = locked \ {t}
    /\ fd' = [fd EXCEPT ![t] = 0]
    /\ pc' = [pc EXCEPT ![t] = "idle"]
    /\ ok' = [ok EXCEPT ![t] = "none"]
    /\ log' = [log EXCEPT ![t] = <<>>]
    /\ wrote' = [wrote EXCEPT ![t] = FALSE]
    /\ resp' = IF t = "webhook" THEN (IF ok[t] = "raised" THEN 500 ELSE 200) ELSE resp
    /\ lastDigest' = IF t \in Watchers /\ ok[t] # "raised"
                     THEN [lastDigest EXCEPT ![t] = digest[t]]
                     ELSE lastDigest
    /\ UNCHANGED <<gitVars, treeVars, cfgVars, runs, monVars, lockIno, fpFile, digest,
                   copied, ext, faults, cycles>>

(***************************************************************************)
(* process_update, a step at a time, run by the trigger t.                 *)
(***************************************************************************)
\* a webhook that persists the fingerprint whatever process_update returned
AfterUpdateAlwaysWrites(t, res) ==
    IF t = "webhook" THEN (IF res # "raised" THEN "fp" ELSE "unlock")
    ELSE IF t = "monitor"
         THEN (IF res = "true" THEN "write" ELSE IF res = "false" THEN "failed" ELSE "unlock")
         ELSE "unlock"

\* where the trigger goes when process_update returns res or raises
AfterUpdate(t, res) ==
    IF t = "webhook" THEN (IF res = "true" THEN "fp" ELSE "unlock")
    ELSE IF t = "monitor"
         THEN (IF res = "true" THEN "write" ELSE IF res = "false" THEN "failed" ELSE "unlock")
         ELSE "unlock"

Return(t, res) ==
    /\ pc' = [pc EXCEPT ![t] = AfterUpdate(t, res)]
    /\ ok' = [ok EXCEPT ![t] = res]

\* process_update, l.119-124
SyncSubmodules(t) ==
    /\ pc[t] = "sync"
    /\ \E F \in FaultChoices(SyncSites) :
         LET r == LocalSubmodulesSync(F, sub)
         IN  /\ Logged(t, F, r.log)
             /\ GitState(remote, head, r.subs)
             /\ IF r.ok
                THEN pc' = [pc EXCEPT ![t] = "parent"] /\ ok' = ok
                ELSE Return(t, "false")
    /\ UNCHANGED <<treeVars, lockVars, cfgVars, runs, monVars, dirVars, fpFile,
                   wrote, resp, ext, cycles>>

\* process_update, l.126-169
CheckoutAndReconcile(t) ==
    /\ pc[t] = "parent"
    /\ \E F \in FaultChoices(CheckoutSites) :
         LET r == ParentCheckout(F, strategy, remote, head, sub)
         IN  /\ Logged(t, F, r.log)
             /\ GitState(remote, r.head, r.subs)
             /\ IF r.raised
                THEN Return(t, "raised")
                ELSE pc' = [pc EXCEPT ![t] = "publish"] /\ ok' = ok
    /\ UNCHANGED <<treeVars, lockVars, cfgVars, runs, monVars, dirVars, fpFile,
                   wrote, resp, ext, cycles>>

\* a publish that mirrors staging into the public root before it mutates staging
PublishTreesMirrorFirst(F, srcT, api, stagingT, publicT) ==
    IF ~CmdOk(F, 0, "rsync-staging")
    THEN [staging |-> RemoveTree(stagingT), public |-> publicT, raised |-> TRUE,
          log |-> <<Entry(0, "rsync-staging", FALSE)>>]
    ELSE IF ~CmdOk(F, 0, "rsync-public")
         THEN [staging |-> Staged(srcT, stagingT, api), public |-> publicT, raised |-> TRUE,
               log |-> <<Entry(0, "rsync-staging", TRUE), Entry(0, "rsync-public", FALSE)>>]
         ELSE [staging |-> Staged(srcT, stagingT, api),
               public |-> RsyncMirror(RsyncExcludeGit(srcT, RemoveTree(stagingT)), publicT),
               raised |-> FALSE,
               log |-> <<Entry(0, "rsync-staging", TRUE), Entry(0, "rsync-public", TRUE)>>]

\* publish(), l.101-108: the two mirrors and the mutation between them; a
\* mirror that fails raises CalledProcessError before it has written
PublishTrees(F, srcT, api, stagingT, publicT) ==
    IF ~CmdOk(F, 0, "rsync-staging")
    THEN [staging |-> RemoveTree(stagingT), public |-> publicT, raised |-> TRUE,
          log |-> <<Entry(0, "rsync-staging", FALSE)>>]
    ELSE IF ~CmdOk(F, 0, "rsync-public")
         THEN [staging |-> Staged(srcT, stagingT, api), public |-> publicT, raised |-> TRUE,
               log |-> <<Entry(0, "rsync-staging", TRUE), Entry(0, "rsync-public", FALSE)>>]
         ELSE [staging |-> Staged(srcT, stagingT, api),
               public |-> RsyncMirror(Staged(srcT, stagingT, api), publicT), raised |-> FALSE,
               log |-> <<Entry(0, "rsync-staging", TRUE), Entry(0, "rsync-public", TRUE)>>]

\* the mirror into the public root deletes what staging lacks: the lock file,
\* the fingerprint file and the stamp among it
Publish(t) ==
    /\ pc[t] = "publish"
    /\ \E F \in FaultChoices(PublishSites) :
         LET r == PublishTrees(F, src, apiBase, staging, public)
         IN  /\ Logged(t, F, r.log)
             /\ staging' = r.staging
             /\ public' = r.public
             /\ IF r.raised
                THEN /\ Return(t, "raised")
                     /\ UNCHANGED <<stamp, lockIno, fpFile, dirVars>>
                ELSE /\ pc' = [pc EXCEPT ![t] = "stamp"] /\ ok' = ok
                     /\ stamp' = 0 /\ lockIno' = 0 /\ fpFile' = <<>>
                     /\ PublicChanges
    /\ UNCHANGED <<gitVars, cfgVars, runs, monVars, fd, locked, wrote, resp, ext, cycles>>

\* publish(), l.110-115, and process_update returns True
WriteStamp(t) ==
    /\ pc[t] = "stamp"
    /\ \E F \in FaultChoices({<<0, "stamp">>}) :
         /\ Logged(t, F, <<Entry(0, "stamp", CmdOk(F, 0, "stamp"))>>)
         /\ IF CmdOk(F, 0, "stamp")
            THEN stamp' = 2 /\ PublicChanges
            ELSE UNCHANGED <<stamp, dirVars>>
    /\ Return(t, "true")
    /\ runs' = Returned(t)
    /\ UNCHANGED <<gitVars, cfgVars, monVars, lockVars, staging, public, fpFile,
                   wrote, resp, ext, cycles>>

(***************************************************************************)
(* The webhook handler.                                                    *)
(***************************************************************************)
Requests ==
    [path : {"/webhook", "/.hooks/redpen-publish", "/other"},
     secret : BOOLEAN,
     sig : {"valid", "mismatch", "malformed"},
     evt : {"", "push", "ping"}]

\* verify_signature(): the algorithm is sha256 and the digests compare equal
VerifySignature(req) == req.sig = "valid"

\* a handler that does not look at the event type
RejectionAnyEvent(req) ==
    IF req.path \notin {"/webhook", "/.hooks/redpen-publish"} THEN 404
    ELSE IF ~req.secret \/ ~VerifySignature(req) THEN 401
    ELSE 0

\* do_POST, l.593-614: the status a request is turned away with, 0 when it is not
Rejection(req) ==
    IF req.path \notin {"/webhook", "/.hooks/redpen-publish"} THEN 404
    ELSE IF ~req.secret \/ ~VerifySignature(req) THEN 401
    ELSE IF req.evt # "" /\ req.evt # "push" THEN 202
    ELSE 0

WebhookPost(req) ==
    /\ pc["webhook"] = "idle"
    /\ IF Rejection(req) # 0
       THEN resp' = Rejection(req) /\ UNCHANGED <<pc, cycles, runs>>
       ELSE /\ cycles < limit.cycles
            /\ cycles' = cycles + 1
            /\ resp' = 0
            /\ pc' = [pc EXCEPT !["webhook"] = "open"]
            /\ runs' = Triggered("webhook")
    /\ UNCHANGED <<gitVars, treeVars, lockVars, cfgVars, monVars, dirVars,
                   fpFile, ok, log, wrote, ext, faults>>

\* write_fingerprint(fp) by trigger t: FINGERPRINT_FILE is a file of /srv/public
WriteFingerprint(t, fp) ==
    /\ fpFile' = fp
    /\ wrote' = [wrote EXCEPT ![t] = TRUE]
    /\ PublicChanges

\* do_POST, l.627-630: the fingerprint of the repository after the cycle
WebhookFingerprint ==
    /\ pc["webhook"] = "fp"
    /\ WriteFingerprint("webhook", <<ComputeFingerprint(remote, head, sub)>>)
    /\ pc' = [pc EXCEPT !["webhook"] = "unlock"]
    /\ UNCHANGED <<gitVars, treeVars, lockVars, cfgVars, runs, monVars, ok, log,
                   resp, ext, faults, cycles>>

(***************************************************************************)
(* The monitor loop.                                                       *)
(***************************************************************************)
\* monitor_loop, l.656
MonitorStart ==
    /\ pc["monitor"] = "start"
    /\ lastFp' = fpFile
    /\ pc' = [pc EXCEPT !["monitor"] = "idle"]
    /\ UNCHANGED <<gitVars, treeVars, lockVars, cfgVars, runs, dirVars, fpFile, ok,
                   log, wrote, monFp, resp, ext, faults, cycles>>

\* monitor_loop, l.659-661 and 679-683: the check outside the lock
MonitorTick ==
    /\ pc["monitor"] = "idle"
    /\ lastFp # <<ComputeFingerprint(remote, head, sub)>>
    /\ cycles < limit.cycles
    /\ cycles' = cycles + 1
    /\ pc' = [pc EXCEPT !["monitor"] = "open"]
    /\ runs' = Triggered("monitor")
    /\ UNCHANGED <<gitVars, treeVars, lockVars, cfgVars, monVars, dirVars,
                   fpFile, ok, log, wrote, resp, ext, faults>>

\* monitor_loop, l.666
MonitorRecompute ==
    /\ pc["monitor"] = "recheck"
    /\ monFp' = <<ComputeFingerprint(remote, head, sub)>>
    /\ pc' = [pc EXCEPT !["monitor"] = "compare"]
    /\ UNCHANGED <<gitVars, treeVars, lockVars, cfgVars, runs, dirVars, fpFile, ok,
                   log, wrote, lastFp, resp, ext, faults, cycles>>

\* the comparison made with the monitor's own last_fp in place of the file
MonitorDiffersFromLast(newFp, persisted) == newFp # lastFp

\* new_fp != read_fingerprint()
MonitorDiffers(newFp, persisted) == newFp # persisted

\* monitor_loop, l.667 and 675-676
MonitorCompare ==
    /\ pc["monitor"] = "compare"
    /\ IF MonitorDiffers(monFp, fpFile)
       THEN /\ pc' = [pc EXCEPT !["monitor"] = "sync"]
            /\ lastFp' = lastFp
            /\ runs' = Called("monitor")
       ELSE /\ pc' = [pc EXCEPT !["monitor"] = "unlock"]
            /\ lastFp' = monFp
            /\ runs' = runs
    /\ UNCHANGED <<gitVars, treeVars, lockVars, cfgVars, dirVars, fpFile, ok,
                   log, wrote, monFp, resp, ext, faults, cycles>>

\* monitor_loop, l.669-671: the fingerprint computed before the cycle is stored
MonitorWrite ==
    /\ pc["monitor"] = "write"
    /\ WriteFingerprint("monitor", monFp)
    /\ lastFp' = monFp
    /\ pc' = [pc EXCEPT !["monitor"] = "unlock"]
    /\ UNCHANGED <<gitVars, treeVars, lockVars, cfgVars, runs, ok, log, monFp, resp,
                   ext, faults, cycles>>

\* monitor_loop, l.672-674: last_fp = read_fingerprint() or new_fp
MonitorFailed ==
    /\ pc["monitor"] = "failed"
    /\ lastFp' = IF fpFile # <<>> THEN fpFile ELSE monFp
    /\ pc' = [pc EXCEPT !["monitor"] = "unlock"]
    /\ UNCHANGED <<gitVars, treeVars, lockVars, cfgVars, runs, dirVars, fpFile, ok,
                   log, wrote, monFp, resp, ext, faults, cycles>>

(***************************************************************************)
(* The polling watchers.                                                   *)
(***************************************************************************)
\* get_submodule_path(): the submodule whose name holds the mode's keyword
SubmoduleOf(w) == IF w = "content" THEN 1 ELSE 2

\* PollingWatcher.run, l.549-550 and 582-585
WatcherPoll(w) ==
    /\ pc[w] = "idle"
    /\ IF lastDigest[w] = "stale"
       THEN /\ digest' = [digest EXCEPT ![w] = "current"]
            /\ pc' = [pc EXCEPT ![w] = "debounce"]
            /\ lastDigest' = lastDigest
       ELSE /\ lastDigest[w] = ""
            /\ lastDigest' = [lastDigest EXCEPT ![w] = "current"]
            /\ UNCHANGED <<digest, pc>>
    /\ UNCHANGED <<gitVars, treeVars, lockVars, cfgVars, runs, monVars, fpFile, ok,
                   log, wrote, copied, resp, ext, faults, cycles>>

\* a watcher without the loop guard
LoopGuardedNever(w) == FALSE

\* stamp_time and (time.time() - stamp_time) < loop_guard
LoopGuarded(w) == w = "public" /\ stamp = 2

\* a debounce that acts on the recomputed digest whether or not it moved
WatcherDebounceInFlux(w) ==
    /\ pc[w] = "debounce"
    /\ IF LoopGuarded(w)
       THEN /\ lastDigest' = [lastDigest EXCEPT ![w] = "current"]
            /\ digest' = [digest EXCEPT ![w] = "current"]
            /\ pc' = [pc EXCEPT ![w] = "idle"]
            /\ UNCHANGED cycles
       ELSE /\ cycles < limit.cycles
            /\ cycles' = cycles + 1
            /\ pc' = [pc EXCEPT ![w] = "open"]
            /\ UNCHANGED <<lastDigest, digest>>
    /\ UNCHANGED <<gitVars, treeVars, lockVars, cfgVars, runs, monVars, fpFile, ok,
                   log, wrote, copied, resp, ext, faults>>

\* PollingWatcher.run, l.552-567
WatcherDebounce(w) ==
    /\ pc[w] = "debounce"
    /\ IF digest[w] # "current" \/ LoopGuarded(w)
       THEN /\ lastDigest' = [lastDigest EXCEPT ![w] = "current"]
            /\ digest' = [digest EXCEPT ![w] = "current"]
            /\ pc' = [pc EXCEPT ![w] = "idle"]
            /\ UNCHANGED cycles
       ELSE /\ cycles < limit.cycles
            /\ cycles' = cycles + 1
            /\ pc' = [pc EXCEPT ![w] = "open"]
            /\ UNCHANGED <<lastDigest, digest>>
    /\ UNCHANGED <<gitVars, treeVars, lockVars, cfgVars, runs, monVars, fpFile, ok,
                   log, wrote, copied, resp, ext, faults>>

\* rsync_copy(): the submodule's worktree becomes the watched directory
RsyncCopy(w, s) == [s EXCEPT !.dirty = s.dirty \/ copied[w] # "current"]

\* the command sites of sync_source_to_submodule for watcher w
SourceSites(w) ==
    {<<0, "rsync-copy">>} \cup {x \in SyncSites : x[1] = SubmoduleOf(w)}

\* a watcher that calls process_update whatever the source step returned
WatcherSourceThenUpdate(w) ==
    /\ pc[w] = "src"
    /\ \E F \in FaultChoices(SourceSites(w)) :
         IF ~CmdOk(F, 0, "rsync-copy")
         THEN /\ Logged(w, F, <<Entry(0, "rsync-copy", FALSE)>>)
              /\ Return(w, "raised")
              /\ UNCHANGED <<gitVars, copied>>
         ELSE LET i == SubmoduleOf(w)
                  r == SyncOneSubmodule(F, i, RsyncCopy(w, sub[i]))
              IN  /\ Logged(w, F, <<Entry(0, "rsync-copy", TRUE)>> \o r.log)
                  /\ GitState(remote, head, [sub EXCEPT ![i] = r.s])
                  /\ copied' = [copied EXCEPT ![w] = "current"]
                  /\ pc' = [pc EXCEPT ![w] = "sync"]
                  /\ ok' = IF r.ok THEN ok ELSE [ok EXCEPT ![w] = "source-false"]
    /\ UNCHANGED <<treeVars, lockVars, cfgVars, runs, monVars, fpFile, wrote,
                   lastDigest, digest, resp, ext, cycles>>

\* sync_source_to_submodule(): copy, commit, rebase, push
WatcherSource(w) ==
    /\ pc[w] = "src"
    /\ \E F \in FaultChoices(SourceSites(w)) :
         IF ~CmdOk(F, 0, "rsync-copy")
         THEN /\ Logged(w, F, <<Entry(0, "rsync-copy", FALSE)>>)
              /\ Return(w, "raised")
              /\ UNCHANGED <<gitVars, copied>>
         ELSE LET i == SubmoduleOf(w)
                  r == SyncOneSubmodule(F, i, RsyncCopy(w, sub[i]))
              IN  /\ Logged(w, F, <<Entry(0, "rsync-copy", TRUE)>> \o r.log)
                  /\ GitState(remote, head, [sub EXCEPT ![i] = r.s])
                  /\ copied' = [copied EXCEPT ![w] = "current"]
                  /\ IF r.ok
                     THEN pc' = [pc EXCEPT ![w] = "sync"] /\ ok' = ok
                     ELSE /\ pc' = [pc EXCEPT ![w] = "unlock"]
                          /\ ok' = [ok EXCEPT ![w] = "source-false"]
    /\ UNCHANGED <<treeVars, lockVars, cfgVars, runs, monVars, fpFile, wrote,
                   lastDigest, digest, resp, ext, cycles>>

(***************************************************************************)
(* The environment.                                                        *)
(***************************************************************************)
\* somebody pushes to the parent's remote branch
PushToParent ==
    /\ ext < limit.ext
    /\ ext' = ext + 1
    /\ runs' = NoRuns
    /\ GitState(remote + 1, head, sub)
    /\ UNCHANGED <<treeVars, lockVars, cfgVars, monVars, dirVars, fpFile, pc,
                   ok, log, wrote, resp, faults, cycles>>

\* somebody pushes to a submodule's remote branch; c: the push touches what
\* the submodule's local work touches
PushToSubmodule(i, c) ==
    /\ ext < limit.ext
    /\ ext' = ext + 1
    /\ runs' = NoRuns
    /\ GitState(remote, head,
                [sub EXCEPT ![i] = [@ EXCEPT !.otip = @ + 1, !.conflict = c]])
    /\ UNCHANGED <<treeVars, lockVars, cfgVars, monVars, dirVars, fpFile, pc,
                   ok, log, wrote, resp, faults, cycles>>

\* somebody edits a tracked file in a submodule's working copy
EditSubmodule(i) ==
    /\ ext < limit.ext
    /\ ext' = ext + 1
    /\ runs' = NoRuns
    /\ ~sub[i].dirty
    /\ GitState(remote, head, [sub EXCEPT ![i] = [@ EXCEPT !.dirty = TRUE]])
    /\ UNCHANGED <<treeVars, lockVars, cfgVars, monVars, dirVars, fpFile, pc,
                   ok, log, wrote, resp, faults, cycles>>

\* somebody edits a file of a watched directory
EditDirectory(w) ==
    /\ ext < limit.ext
    /\ ext' = ext + 1
    /\ DirectoryChanges(w)
    /\ UNCHANGED <<gitVars, treeVars, lockVars, cfgVars, runs, monVars, fpFile, pc,
                   ok, log, wrote, resp, faults, cycles>>

\* the loop guard window after the last stamp ends
GuardExpires ==
    /\ stamp = 2
    /\ stamp' = 1
    /\ UNCHANGED <<gitVars, staging, public, lockVars, cfgVars, runs, monVars,
                   dirVars, fpFile, pc, ok, log, wrote, resp, ext, faults, cycles>>

(***************************************************************************)
(* The daemon: the four triggers and the environment.                      *)
(***************************************************************************)
LockStep(t) == OpenLock(t) \/ Flock(t) \/ Unlock(t)

UpdateStep(t) ==
    SyncSubmodules(t) \/ CheckoutAndReconcile(t) \/ Publish(t) \/ WriteStamp(t)

\* the deliveries of the repository host: signed with the secret, to either path
Deliveries == {req \in Requests : req.secret /\ req.sig = "valid" /\ req.path # "/other"}

WebhookStep == (\E req \in Deliveries : WebhookPost(req)) \/ WebhookFingerprint

MonitorStep ==
    \/ MonitorStart
    \/ MonitorTick
    \/ MonitorRecompute
    \/ MonitorCompare
    \/ MonitorWrite
    \/ MonitorFailed

WatcherStep(w) == WatcherPoll(w) \/ WatcherDebounce(w) \/ WatcherSource(w)

GitEnvironment ==
    \/ PushToParent
    \/ \E i \in SubIds, c \in BOOLEAN : PushToSubmodule(i, c)
    \/ \E i \in SubIds : EditSubmodule(i)

Next ==
    \/ \E t \in Triggers : LockStep(t)
    \/ \E t \in Triggers : UpdateStep(t)
    \/ WebhookStep
    \/ MonitorStep
    \/ \E w \in Watchers : WatcherStep(w)
    \/ GitEnvironment
    \/ \E w \in Watchers : EditDirectory(w)
    \/ GuardExpires

Spec == Init /\ [][Next]_vars

(***************************************************************************)
(* The daemon with both watchers disabled (ENABLE_PUBLIC_WATCH=0,          *)
(* ENABLE_CONTENT_WATCH=0): the webhook and the monitor race.              *)
(***************************************************************************)
\* external events, failed commands and locked sections of one behaviour
RaceExt == 1

RaceFaults == 1

RaceCycles == 2

InitRace ==
    /\ InitWorld
    /\ InitTrees
    /\ src = RepoTree(0, CleanSubs)
    /\ pc = [t \in Triggers |-> IF t = "monitor" THEN "start" ELSE "idle"]
    /\ strategy = "remote"
    /\ apiBase = 1
    /\ fpFile \in {<<>>, <<ComputeFingerprint(0, 0, CleanSubs)>>}
    /\ limit = [ext |-> RaceExt, faults |-> RaceFaults, cycles |-> RaceCycles]
    /\ watched = NoFiles
    /\ refs = ClonedRefs

NextRace ==
    \/ \E t \in {"webhook", "monitor"} : LockStep(t)
    \/ \E t \in {"webhook", "monitor"} : UpdateStep(t)
    \/ WebhookStep
    \/ MonitorStep
    \/ GitEnvironment

SpecRace == InitRace /\ [][NextRace]_vars

(***************************************************************************)
(* The two directory watchers alone, the webhook and the monitor asleep.   *)
(***************************************************************************)
WatchExt == 2

WatchFaults == 1

WatchCycles == 2

InitWatch ==
    /\ InitWorld
    /\ InitTrees
    /\ src = RepoTree(0, CleanSubs)
    /\ pc = [t \in Triggers |-> "idle"]
    /\ strategy = "remote"
    /\ apiBase = 1
    /\ fpFile = <<ComputeFingerprint(0, 0, CleanSubs)>>
    /\ limit = [ext |-> WatchExt, faults |-> WatchFaults, cycles |-> WatchCycles]
    /\ watched = NoFiles
    /\ refs = ClonedRefs

NextWatch ==
    \/ \E w \in Watchers : LockStep(w)
    \/ \E w \in Watchers : UpdateStep(w)
    \/ \E w \in Watchers : WatcherStep(w)
    \/ \E w \in Watchers : EditDirectory(w)
    \/ GitEnvironment
    \/ GuardExpires

SpecWatch == InitWatch /\ [][NextWatch]_vars

(***************************************************************************)
(* One trigger alone: the cycles the webhook runs while the other triggers *)
(* sleep, under either submodule strategy.                                 *)
(***************************************************************************)
CycleExt == 2

CycleFaults == 2

CycleRuns == 1

\* the daemon starts on a fresh clone, over nothing or over what an earlier
\* run of it published from the same commit
InitCycle ==
    /\ InitWorld
    /\ src = RepoTree(0, CleanSubs)
    /\ apiBase = 1
    /\ \E earlier \in BOOLEAN :
         /\ public = IF earlier THEN Staged(src, EmptyTree, apiBase) ELSE EmptyTree
         /\ staging = public
         /\ stamp = IF earlier THEN 1 ELSE 0
    /\ pc = [t \in Triggers |-> "idle"]
    /\ strategy \in {"remote", "recorded"}
    /\ fpFile = <<ComputeFingerprint(0, 0, CleanSubs)>>
    /\ limit = [ext |-> CycleExt, faults |-> CycleFaults, cycles |-> CycleRuns]
    /\ watched = NoFiles
    /\ refs = ClonedRefs

NextCycle ==
    \/ LockStep("webhook")
    \/ UpdateStep("webhook")
    \/ WebhookStep
    \/ GitEnvironment

SpecCycle == InitCycle /\ [][NextCycle]_vars

(***************************************************************************)
(* publish() on its own: the webhook holds the lock and is about to call   *)
(* publish on a repository, a staging root and a public root of any        *)
(* content.                                                                *)
(***************************************************************************)
PublishFaults == 1

\* the files of the public root the daemon keeps beside the site
LockPath == <<".sync.lock">>

FingerprintPath == <<".last_fingerprint">>

StampPath == <<".published_by_sync">>

\* the names of the files of the public root
PublicFiles ==
    (DOMAIN public)
    \cup (IF lockIno # 0 THEN {LockPath} ELSE {})
    \cup (IF fpFile # <<>> THEN {FingerprintPath} ELSE {})
    \cup (IF stamp # 0 THEN {StampPath} ELSE {})

IndexTexts ==
    {<<HeadClose, Plain(1)>>, <<HeadClose, Plain(1), HeadClose>>,
     <<ConfigMention, HeadClose>>, <<Plain(2)>>}

BootstrapTexts == {<<Stub>>, <<Plain(1), Stub, Stub>>, <<Plain(3)>>}

\* a repository holding every path of the model
FullTree(index, bootstrap) ==
    [p \in {<<"index.html">>, BootstrapPath, AppConfigPath, <<".git", "HEAD">>,
            <<"redpen-content", ".git">>, <<"redpen-content", "a.html">>} |->
        IF p = <<"index.html">> THEN index
        ELSE IF p = BootstrapPath THEN bootstrap
        ELSE IF p = <<"redpen-content", "a.html">> THEN <<HeadClose>>
        ELSE <<Plain(0)>>]

SourceTrees ==
    {Restrict(FullTree(index, bootstrap), D) :
        index \in IndexTexts, bootstrap \in BootstrapTexts,
        D \in SUBSET {<<"index.html">>, BootstrapPath, AppConfigPath,
                      <<".git", "HEAD">>, <<"redpen-content", ".git">>,
                      <<"redpen-content", "a.html">>}}

\* what an earlier publish, or anybody, left in the staging or public root
PriorTrees ==
    {EmptyTree,
     [p \in {<<"old.html">>, <<".git", "HEAD">>} |-> <<Plain(9)>>],
     [p \in {<<"index.html">>, AppConfigPath, <<"redpen-content", "b.html">>} |->
        <<ScriptTag, HeadClose>>]}

InitPublish ==
    /\ remote = 0 /\ head = 0
    /\ sub = CleanSubs
    /\ src \in SourceTrees
    /\ staging \in PriorTrees
    /\ public \in PriorTrees
    /\ stamp \in {0, 1}
    /\ lockIno = 1
    /\ fd = [t \in Triggers |-> IF t = "webhook" THEN 1 ELSE 0]
    /\ locked = {"webhook"}
    /\ fpFile = <<>>
    /\ pc = [t \in Triggers |-> IF t = "webhook" THEN "publish" ELSE "idle"]
    /\ ok = [t \in Triggers |-> "none"]
    /\ log = [t \in Triggers |-> <<>>]
    /\ wrote = [t \in Triggers |-> FALSE]
    /\ lastFp = <<>>
    /\ monFp = <<>>
    /\ lastDigest = [w \in Watchers |-> ""]
    /\ digest = [w \in Watchers |-> "current"]
    /\ copied = [w \in Watchers |-> "current"]
    /\ resp = 0
    /\ ext = 0 /\ faults = 0 /\ cycles = 1
    /\ runs = [NoRuns EXCEPT !["webhook"] = "called"]
    /\ strategy = "remote"
    /\ apiBase \in ApiBases
    /\ limit = [ext |-> 0, faults |-> PublishFaults, cycles |-> 1]
    /\ watched = NoFiles
    /\ refs = ClonedRefs

NextPublish ==
    \/ Publish("webhook")
    \/ WriteStamp("webhook")
    \/ WebhookFingerprint
    \/ Unlock("webhook")

SpecPublish == InitPublish /\ [][NextPublish]_vars
(***************************************************************************)
(* The claims.                                                             *)
(***************************************************************************)
\* C1: lock exclusivity: at every moment at most one of the triggers is
\* inside its locked section, that is, past the return of its flock(LOCK_EX)
\* and not yet at its flock(LOCK_UN).
C1_LockExclusivity == Cardinality(locked) <= 1

\* C2: when the monitor and the webhook are both triggered by one change of
\* the repository and nothing changes after it, the two of them together run
\* one full cycle: once the process_update of one of them has returned True
\* for the change, the other does not call process_update for it again.
C2_OneCyclePerChange ==
    ext >= 1 => \A t \in DOMAIN runs : runs[t] # "again"

\* the monitor's step from the comparison of l.667
MonitorDecides == pc["monitor"] = "compare" /\ pc'["monitor"] # "compare"

\* C3: the monitor double-check: holding the lock, the monitor recomputes the
\* fingerprint from the repository as it then is, and calls process_update
\* exactly when the recomputed value differs from the fingerprint the file
\* holds at that moment; when they are equal it runs no command of the
\* synchronizer or of publish, leaves the file, the repository and the
\* published trees as they are, and releases the lock next.
C3_MonitorDoubleCheck ==
    [][/\ (pc["monitor"] = "recheck" /\ pc'["monitor"] # "recheck")
          => /\ "monitor" \in locked
             /\ monFp' = <<ComputeFingerprint(remote, head, sub)>>
       /\ MonitorDecides
          => /\ (pc'["monitor"] = "sync") <=> (monFp # fpFile)
             /\ (monFp = fpFile)
                => /\ pc'["monitor"] = "unlock"
                   /\ log'["monitor"] = <<>>
                   /\ ok'["monitor"] = "none"
                   /\ UNCHANGED <<fpFile, gitVars, treeVars, runs>>
       /\ (pc["monitor"] = "unlock" /\ pc'["monitor"] # "unlock")
          => "monitor" \notin locked' /\ fd'["monitor"] = 0]_vars

\* C3: the monitor, holding the lock, found the recomputed fingerprint in the
\* file and is about to release the lock without having called process_update.
C3_MonitorSkipped ==
    /\ pc["monitor"] = "unlock"
    /\ "monitor" \in locked
    /\ ok["monitor"] = "none"
    /\ fpFile = monFp
    /\ monFp # <<>>

\* C4: whichever trigger ran it, a cycle that completed successfully has
\* written the fingerprint file by the time the trigger releases the lock.
C4_FingerprintBeforeRelease ==
    \A t \in Triggers : (pc[t] = "unlock" /\ ok[t] = "true") => wrote[t]

(***************************************************************************)
(* What the commands of a locked section show of it.                       *)
(***************************************************************************)
\* the command c ran for i (0: the parent), and failed
Ran(i, c, lg) == \E b \in BOOLEAN : Entry(i, c, b) \in Range(lg)

FailedCmd(i, c, lg) == Entry(i, c, FALSE) \in Range(lg)

\* the bidirectional sync of submodule i failed: its commit, its fetch, its
\* rebase, or its push and the retry of the push
SubSyncFailed(i, lg) ==
    \E c \in {"add", "commit", "fetch", "pull", "push-u"} : FailedCmd(i, c, lg)

\* the parent checkout failed: the fetch, or the reset and the fallback checkout
ParentCheckoutFailed(lg) ==
    FailedCmd(0, "fetch", lg) \/ (FailedCmd(0, "reset", lg) /\ FailedCmd(0, "checkout", lg))

\* a step of the submodule reconciliation failed
ReconcileFailed(lg) ==
    \E c \in {"submodule-sync", "update-remote", "update"} : FailedCmd(0, c, lg)

PublishRan(lg) == Ran(0, "rsync-staging", lg)

PublishFailed(lg) == FailedCmd(0, "rsync-staging", lg) \/ FailedCmd(0, "rsync-public", lg)

\* the webhook's step out of the place at
WebhookLeaves(at) == pc["webhook"] = at /\ pc'["webhook"] # at

\* what a cycle publishes and persists
Published == <<public, stamp, fpFile>>

\* C5: partial failure skips publish: when the sync of at least one submodule
\* fails in a cycle, process_update returns False at once, no command of
\* publish runs in the cycle, and no step of the cycle, from the taking of
\* the lock to its release, changes the public tree, the stamp or the
\* fingerprint file.
C5_PartialFailureSkipsPublish ==
    [][/\ (WebhookLeaves("sync") /\ \E i \in SubIds : SubSyncFailed(i, log'["webhook"]))
          => ok'["webhook"] = "false" /\ pc'["webhook"] = "unlock"
       /\ ok'["webhook"] = "false" => ~PublishRan(log'["webhook"])
       /\ (\/ pc'["webhook"] \in {"flock", "sync"}
           \/ ok'["webhook"] = "false"
           \/ ok["webhook"] = "false")
          => UNCHANGED Published]_vars

\* C5: a cycle over an earlier publish is about to end after the sync of a
\* submodule failed.
C5_CycleFailed ==
    /\ pc["webhook"] = "unlock"
    /\ ok["webhook"] = "false"
    /\ \E i \in SubIds : SubSyncFailed(i, log["webhook"])
    /\ public # EmptyTree

\* the state of submodule i before the rebase of this step: its local changes
\* committed when the step committed them
PreRebase(i) ==
    IF Entry(i, "commit", TRUE) \in Range(log'["webhook"]) THEN GitCommit(sub[i]) ELSE sub[i]

Attempts(i, lg) == Cardinality({j \in DOMAIN lg : lg[j][1] = i /\ lg[j][2] = "status"})

\* C7: sibling independence: in one cycle the sync is attempted exactly once
\* for every submodule descriptor, those after a failed one included, and the
\* overall result is success exactly when the sync of every descriptor
\* succeeded.
C7_SiblingIndependence ==
    [][WebhookLeaves("sync")
       => /\ \A i \in SubIds : Attempts(i, log'["webhook"]) = 1
          /\ (ok'["webhook"] = "false")
             <=> (\E i \in SubIds : SubSyncFailed(i, log'["webhook"]))
          /\ (ok'["webhook"] # "false")
             => ok'["webhook"] = "none" /\ pc'["webhook"] = "parent"]_vars

\* C7: the sync of the first submodule failed, the sync of the second was
\* attempted all the same and succeeded, and the overall result is failure.
C7_SiblingSynced ==
    /\ pc["webhook"] = "unlock"
    /\ ok["webhook"] = "false"
    /\ SubSyncFailed(1, log["webhook"])
    /\ Attempts(2, log["webhook"]) = 1
    /\ ~SubSyncFailed(2, log["webhook"])
    /\ Ran(2, "push", log["webhook"])

\* C8: the parent checkout failure is fatal to the cycle: when the fetch of
\* the parent fails, or the reset and the fallback checkout both fail,
\* process_update raises, no submodule is updated or reset, no command of
\* publish runs, no step of the cycle changes the public tree, the stamp or
\* the fingerprint file, and the trigger's next step releases the lock.
C8_ParentCheckoutFatal ==
    [][/\ (WebhookLeaves("parent") /\ ParentCheckoutFailed(log'["webhook"]))
          => /\ ok'["webhook"] = "raised" /\ pc'["webhook"] = "unlock"
             /\ sub' = sub /\ head' = head
             /\ ~ReconcileFailed(log'["webhook"])
             /\ \A c \in {"submodule-sync", "update-remote", "update"} :
                   ~Ran(0, c, log'["webhook"])
             /\ \A i \in SubIds : ~Ran(i, "fc_fetch", log'["webhook"])
       /\ ParentCheckoutFailed(log'["webhook"]) => ~PublishRan(log'["webhook"])
       /\ (\/ pc'["webhook"] \in {"flock", "sync", "parent"}
           \/ ParentCheckoutFailed(log'["webhook"])
           \/ ParentCheckoutFailed(log["webhook"]))
          => UNCHANGED Published
       /\ (WebhookLeaves("unlock") /\ ParentCheckoutFailed(log["webhook"]))
          => /\ "webhook" \in locked /\ "webhook" \notin locked'
             /\ fd'["webhook"] = 0 /\ pc'["webhook"] = "idle"]_vars

\* C8: a cycle over an earlier publish is about to release the lock after
\* the reset of the parent and the fallback checkout both failed.
C8_CheckoutFailedTwice ==
    /\ pc["webhook"] = "unlock"
    /\ ok["webhook"] = "raised"
    /\ FailedCmd(0, "reset", log["webhook"])
    /\ FailedCmd(0, "checkout", log["webhook"])
    /\ "webhook" \in locked
    /\ public # EmptyTree

\* C9: submodule reconciliation is degraded, not fatal: after a failure of
\* the submodule configuration sync, of the remote-tracking update or of the
\* recorded-commit update, both updates failing included, process_update goes
\* on to publish, publish runs, and unless a mirror of publish itself fails
\* the public root is published and process_update returns True.
C9_ReconcileDegraded ==
    [][(ReconcileFailed(log'["webhook"]) /\ ~ParentCheckoutFailed(log'["webhook"]))
       => /\ WebhookLeaves("parent")
             => pc'["webhook"] = "publish" /\ ok'["webhook"] = "none"
          /\ WebhookLeaves("publish")
             => /\ PublishRan(log'["webhook"])
                /\ ~PublishFailed(log'["webhook"])
                   => /\ pc'["webhook"] = "stamp"
                      /\ public' = Staged(src, staging, apiBase)
          /\ WebhookLeaves("stamp")
             => ok'["webhook"] = "true" /\ pc'["webhook"] = "fp"]_vars

\* C9: the remote-tracking update and the recorded-commit update both failed
\* and the cycle has published and returned True.
C9_BothUpdatesFailed ==
    /\ ok["webhook"] = "true"
    /\ FailedCmd(0, "update-remote", log["webhook"])
    /\ FailedCmd(0, "update", log["webhook"])
    /\ Entry(0, "rsync-public", TRUE) \in Range(log["webhook"])
    /\ public = Staged(src, EmptyTree, apiBase)

\* the tree without its version-control metadata
WithoutGit(tree) == Restrict(tree, {p \in DOMAIN tree : ~InGit(p)})

\* mutate(source without version-control metadata, config)
MutatedSource == MutateStaging(WithoutGit(src), apiBase)

\* publish has returned without an exception
PublishReturned == pc["webhook"] = "fp" /\ ok["webhook"] = "true"

\* C10, as the spec states it: after a successful publish the files of the
\* public root and their contents are those of the mutated source, and no
\* other file is in the public root.
C10_PublicIsMutatedSource ==
    PublishReturned => public = MutatedSource /\ PublicFiles = DOMAIN MutatedSource

\* C10, amended: after a successful publish the files of the public root and
\* their contents are those of the mutated source, whatever the staging and
\* the public root held before, but for the stamp file .published_by_sync,
\* which publish writes into the public root after the mirror.
C10_PublicIsMutatedSourceAndStamp ==
    PublishReturned
    => /\ public = MutatedSource
       /\ PublicFiles \ {StampPath} = DOMAIN MutatedSource
       /\ \A p \in DOMAIN public : ~InGit(p)

\* C10: publish has returned over a repository with version-control
\* metadata, an html page and the bootstrap script, and the stamp is written.
C10_Published ==
    /\ PublishReturned
    /\ stamp = 2
    /\ \E p \in DOMAIN src : InGit(p)
    /\ <<"index.html">> \in DOMAIN public
    /\ BootstrapPath \in DOMAIN public
    /\ AppConfigPath \in DOMAIN public

(***************************************************************************)
(* Publish after publish: the webhook runs cycle after cycle over a public *)
(* root and a staging root of any earlier content.                         *)
(***************************************************************************)
RepublishExt == 1

RepublishFaults == 1

RepublishRuns == 2

InitRepublish ==
    /\ InitWorld
    /\ src = RepoTree(0, CleanSubs)
    /\ apiBase \in ApiBases
    /\ public \in PriorTrees \cup {Staged(src, EmptyTree, apiBase)}
    /\ staging \in {EmptyTree, public}
    /\ stamp = IF public = EmptyTree THEN 0 ELSE 1
    /\ pc = [t \in Triggers |-> "idle"]
    /\ strategy = "remote"
    /\ fpFile = <<ComputeFingerprint(0, 0, CleanSubs)>>
    /\ limit = [ext |-> RepublishExt, faults |-> RepublishFaults, cycles |-> RepublishRuns]
    /\ watched = NoFiles
    /\ refs = ClonedRefs

NextRepublish ==
    \/ LockStep("webhook")
    \/ UpdateStep("webhook")
    \/ WebhookStep
    \/ GitEnvironment

SpecRepublish == InitRepublish /\ [][NextRepublish]_vars

\* the mirror into the public root has just succeeded
PublishMirrored == pc["webhook"] = "publish" /\ pc'["webhook"] = "stamp"

StagingMutated == pc["webhook"] \in {"stamp", "fp"}

\* C12: mutation idempotence: mutate_staging applied to a staged tree it has
\* already mutated gives the same tree; so do its injection step and its
\* bootstrap patch each on its own, and no text of the tree has the needle
\* of the patch left.
C12_MutationIdempotent ==
    StagingMutated
    => /\ MutateStaging(staging, apiBase) = staging
       /\ InjectAppConfigScript(staging) = staging
       /\ PatchBootstrapJs(staging) = staging
       /\ BootstrapPath \in DOMAIN staging => Stub \notin Range(staging[BootstrapPath])

\* C12: the staged tree holds an html document that the mutation injected
\* into and a bootstrap script that it patched.
C12_InjectedAndPatched ==
    /\ StagingMutated
    /\ <<"index.html">> \in DOMAIN src /\ ~MentionsConfig(src[<<"index.html">>])
    /\ ScriptTag \in Range(staging[<<"index.html">>])
    /\ BootstrapPath \in DOMAIN src /\ Stub \in Range(src[BootstrapPath])
    /\ Patched \in Range(staging[BootstrapPath])

\* how many times the token tok occurs in text
Occurrences(tok, text) == Cardinality({i \in DOMAIN text : text[i] = tok})

\* C13: after the mutation step every html document of the staged tree that
\* did not hold the reference to app-config.js before holds the script tag
\* exactly once.
C13_InjectedExactlyOnce ==
    StagingMutated
    => \A p \in DOMAIN staging :
          IsHtml(p) /\ ~MentionsConfig(src[p]) => Occurrences(ScriptTag, staging[p]) = 1

\* watcher w ends its debounce wait
DebounceEnds(w) == pc[w] = "debounce" /\ pc'[w] # "debounce"

\* C14: loop guard: when the public watcher ends its debounce wait on a
\* change that stayed as it was, and the stamp in the public root is younger
\* than the guard window, it goes back to polling with the observed digest as
\* its baseline: it opens and takes no lock, copies nothing into the
\* submodule and runs no cycle.
C14_LoopGuard ==
    [][DebounceEnds("public") /\ digest["public"] = "current" /\ stamp = 2
       => /\ pc'["public"] = "idle"
          /\ lastDigest'["public"] = digest'["public"]
          /\ digest'["public"] = "current"
          /\ UNCHANGED <<lockVars, gitVars, treeVars, copied, cycles, fpFile>>]_vars

\* C14: the public watcher has debounced a change of the public tree that a
\* publish made, the stamp of that publish being younger than the window.
C14_GuardedChange ==
    /\ pc["public"] = "debounce"
    /\ digest["public"] = "current"
    /\ stamp = 2
    /\ public # EmptyTree

\* C15: debounce: a watcher leaves its polling state only for the debounce
\* wait, and only on a digest that differs from its baseline; when the
\* digest recomputed after the wait differs from the one before it, the
\* watcher goes back to polling with the newest digest as its baseline and
\* takes no lock, copies nothing, runs no sync and publishes nothing.
C15_Debounce ==
    [][\A w \in Watchers :
         /\ pc[w] = "idle" /\ pc'[w] # "idle"
            => lastDigest[w] = "stale" /\ pc'[w] = "debounce"
         /\ DebounceEnds(w) /\ digest[w] # "current"
            => /\ pc'[w] = "idle"
               /\ lastDigest'[w] = "current" /\ digest'[w] = "current"
               /\ UNCHANGED <<lockVars, gitVars, treeVars, copied, cycles, fpFile>>]_vars

\* C15: the directory of the content watcher changed again while the watcher
\* was in its debounce wait.
C15_ChangedDuringDebounce ==
    /\ pc["content"] = "debounce"
    /\ digest["content"] = "stale"
    /\ lastDigest["content"] = "stale"

(***************************************************************************)
(* The webhook endpoint open to anybody: requests to any path, signed or   *)
(* not, of any event type.                                                 *)
(***************************************************************************)
HookExt == 1

HookFaults == 1

HookRuns == 2

InitHook ==
    /\ InitWorld
    /\ InitTrees
    /\ src = RepoTree(0, CleanSubs)
    /\ apiBase = 1
    /\ pc = [t \in Triggers |-> "idle"]
    /\ strategy = "remote"
    /\ fpFile \in {<<>>, <<ComputeFingerprint(0, 0, CleanSubs)>>}
    /\ limit = [ext |-> HookExt, faults |-> HookFaults, cycles |-> HookRuns]
    /\ watched = NoFiles
    /\ refs = ClonedRefs

\* the requests anybody sends
AnyRequest == \E req \in Requests : WebhookPost(req)

NextHook ==
    \/ LockStep("webhook")
    \/ UpdateStep("webhook")
    \/ AnyRequest
    \/ WebhookFingerprint
    \/ GitEnvironment

SpecHook == InitHook /\ [][NextHook]_vars

\* the requests the claims call rejected or ignored, and the status of each
WrongPath(req) == req.path \notin {"/webhook", "/.hooks/redpen-publish"}

BadSignature(req) == ~req.secret \/ req.sig \in {"mismatch", "malformed"}

OtherEvent(req) == req.evt \notin {"", "push"}

Refused(req) == WrongPath(req) \/ BadSignature(req) \/ OtherEvent(req)

\* C16: a request to a wrong path, a request with no secret configured or
\* with a malformed or mismatching signature, and a request of an event other
\* than push return with the lock file not opened and the lock not taken, no
\* step of the synchronizer or of publish run, and the persisted fingerprint
\* as it was.
C16_RefusedRequestsDoNothing ==
    [][\A req \in Requests :
         Refused(req) /\ WebhookPost(req)
         => UNCHANGED <<lockVars, gitVars, treeVars, fpFile, pc, ok, log, wrote,
                        cycles, faults, dirVars, monVars>>]_vars

\* C16: a request was turned away with 401 while a pushed commit waits to be
\* fetched, and nothing has run.
C16_Refused ==
    /\ resp = 401
    /\ remote # head
    /\ pc["webhook"] = "idle"
    /\ cycles = 0 /\ lockIno = 0

\* the handler answers the request it was processing
Answers(code) == pc["webhook"] = "unlock" /\ pc'["webhook"] = "idle" /\ resp' = code

\* C17: response codes: a request to a wrong path is answered 404, a request
\* that fails the signature test 401, a signed request of another event 202,
\* and a signed push is answered 200 when, and only when, the cycle it ran
\* was processed successfully.
C17_ResponseCodes ==
    [][/\ \A req \in Requests :
            WebhookPost(req)
            => IF WrongPath(req) THEN resp' = 404
               ELSE IF BadSignature(req) THEN resp' = 401
               ELSE IF OtherEvent(req) THEN resp' = 202
               ELSE resp' = 0
       /\ Answers(200) <=> (pc["webhook"] = "unlock" /\ pc'["webhook"] = "idle"
                            /\ ok["webhook"] = "true")]_vars

\* the webhook releases the lock and answers
WebhookEnds == pc["webhook"] = "unlock" /\ pc'["webhook"] = "idle"

SubmoduleMoved(i) == sub[i].base # Recorded(head, i)

\* C19: post-update pointer bump: a cycle that has updated a submodule has
\* staged the submodule entries in the parent, committed them and pushed the
\* parent's branch before it returns.
C19_PointerBump ==
    PublishReturned /\ (\E i \in SubIds : SubmoduleMoved(i))
    => /\ Ran(0, "add", log["webhook"])
       /\ Ran(0, "commit", log["webhook"])
       /\ Ran(0, "push", log["webhook"])

\* submodule i has an uncommitted edit, its upstream branch has advanced and
\* the advance does not touch what the edit touches
EditedAndBehind(i) ==
    /\ sub[i].dirty /\ sub[i].ahead = 0
    /\ sub[i].base < sub[i].otip
    /\ ~sub[i].conflict /\ ~sub[i].rebasing

\* C20: non-conflicting bidirectional sync: when a submodule has an
\* uncommitted edit and its upstream branch has advanced without conflict,
\* the submodule sync of a cycle in which no command is failed from outside
\* commits the edit, puts it on top of the advanced origin/<branch> and
\* pushes it: origin/<branch> is the advanced tip plus the auto-commit and
\* the submodule's HEAD is that commit.
C20_BidirectionalSync ==
    [][\A i \in SubIds :
         WebhookLeaves("sync") /\ faults' = faults /\ EditedAndBehind(i)
         => /\ Entry(i, "commit", TRUE) \in Range(log'["webhook"])
            /\ sub'[i].otip = sub[i].otip + 1
            /\ sub'[i].base = sub'[i].otip /\ sub'[i].ahead = 0
            /\ ~sub'[i].dirty]_vars

(***************************************************************************)
(* The directory digest of a watcher.  sha256 is taken to be injective:    *)
(* the digest is the text that _compute_digest feeds to it.                *)
(***************************************************************************)
DigitChars == <<"0", "1", "2", "3", "4", "5", "6", "7", "8", "9">>

RECURSIVE Decimal(_)
\* str(n)
Decimal(n) ==
    IF n < 10 THEN <<DigitChars[n + 1]>>
    ELSE Decimal(n \div 10) \o <<DigitChars[(n % 10) + 1]>>

\* the paths of the model's watched directory, as sorted() orders them
WatchedPaths == << <<".git", "x.md">>, <<"a.md">>, <<"b.txt">> >>

\* p.suffix.lower() of the model's file names
SuffixLower(p) == IF p[Len(p)] = "b.txt" THEN ".txt" ELSE ".md"

\* _iter_files(): the regular files outside .git, in content mode those of
\* the text and metadata suffixes only
IterFiles(mode, dir) ==
    {p \in DOMAIN dir :
        /\ ~InGit(p)
        /\ mode = "public"
           \/ SuffixLower(p) \in {".md", ".markdown", ".json", ".yaml", ".yml"}}

RECURSIVE RelText(_)
\* str(f.relative_to(base))
RelText(p) ==
    IF Len(p) = 1 THEN <<p[1]>> ELSE <<p[1], "/">> \o RelText(Tail(p))

RECURSIVE DigestFrom(_, _, _)
\* the loop of _compute_digest from the k-th sorted path on: rel, then
\* str(st_mtime_ns), then str(st_size), one after the other
DigestFrom(mode, dir, k) ==
    IF k > Len(WatchedPaths) THEN <<>>
    ELSE LET p == WatchedPaths[k]
         IN  (IF p \in IterFiles(mode, dir)
              THEN RelText(p) \o Decimal(dir[p].mtime) \o Decimal(dir[p].size)
              ELSE <<>>)
             \o DigestFrom(mode, dir, k + 1)

\* _compute_digest()
ComputeDigest(mode, dir) == DigestFrom(mode, dir, 1)

\* the stat data a file of the model may have
Mtimes == {1, 12}

Sizes == {3, 23}

Stats == [mtime : Mtimes, size : Sizes]

Directories ==
    UNION {[D -> Stats] : D \in SUBSET Range(WatchedPaths)}

\* everything but the watched directory
daemonVars ==
    <<gitVars, treeVars, lockVars, strategy, apiBase, limit, monVars, dirVars,
      fpFile, pc, ok, log, wrote, resp, ext, faults, cycles, runs, refs>>

\* somebody creates file p, writes it or sets its times
StatChanges(p, st) ==
    /\ IF p \in DOMAIN watched THEN watched[p] # st ELSE TRUE
    /\ watched' = [q \in (DOMAIN watched) \cup {p} |-> IF q = p THEN st ELSE watched[q]]
    /\ UNCHANGED daemonVars

\* somebody deletes file p
FileRemoved(p) ==
    /\ p \in DOMAIN watched
    /\ watched' = [q \in (DOMAIN watched) \ {p} |-> watched[q]]
    /\ UNCHANGED daemonVars

InitDigest ==
    /\ InitWorld
    /\ InitTrees
    /\ sub = CleanSubs
    /\ src = RepoTree(0, CleanSubs)
    /\ apiBase = 1
    /\ pc = [t \in Triggers |-> "idle"]
    /\ strategy = "remote"
    /\ fpFile = <<>>
    /\ limit = [ext |-> 0, faults |-> 0, cycles |-> 0]
    /\ watched \in Directories
    /\ refs = ClonedRefs

NextDigest ==
    \/ \E p \in Range(WatchedPaths), st \in Stats : StatChanges(p, st)
    \/ \E p \in Range(WatchedPaths) : FileRemoved(p)

SpecDigest == InitDigest /\ [][NextDigest]_vars

\* file p is in the directory before and after the step, with another size
\* or another modification time
StatOfFileChanges(p) ==
    /\ p \in DOMAIN watched /\ p \in DOMAIN watched'
    /\ watched'[p] # watched[p]

\* C21: directory digest stability and sensitivity: the digest of a watcher
\* is the same for the same directory, and a change of the size or of the
\* modification time of any file under the watched root changes the digest
\* of the watcher, in either mode.
C21_DigestSensitive ==
    [][\A mode \in Watchers :
         /\ watched' = watched => ComputeDigest(mode, watched') = ComputeDigest(mode, watched)
         /\ \A p \in Range(WatchedPaths) :
              StatOfFileChanges(p)
              => ComputeDigest(mode, watched') # ComputeDigest(mode, watched)]_vars

\* the mirror into the public root, run by trigger t, has just succeeded
Mirrors(t) == pc[t] = "publish" /\ pc'[t] = "stamp"

\* trigger t opens the lock path
Opens(t) == pc[t] = "open" /\ pc'[t] = "flock"

\* C22: publish leaves the daemon's persisted state intact: the mirror into
\* the public root leaves the lock file and the fingerprint file as they
\* were, and a trigger that opens the lock path opens the file that the
\* triggers inside their locked sections hold locked.
C22_PublishKeepsState ==
    [][\A t \in Triggers :
         /\ Mirrors(t) => lockIno' = lockIno /\ fpFile' = fpFile
         /\ Opens(t) => \A u \in locked : fd'[t] = fd[u]]_vars

\* the commits of submodule s that origin lacks: those of HEAD and, while
\* HEAD is detached, those of the local branch
LocalCommits(s) == IF s.attached THEN s.ahead ELSE s.ahead + s.lahead

\* C23: no local work is silently lost: the submodule update and the reset
\* to origin/<branch> of a cycle discard no commit that origin lacks; the
\* commits that only the submodule's working copy holds are still held by
\* its HEAD or by its local branch afterwards.
C23_NoLocalWorkLost ==
    [][WebhookLeaves("parent")
       => \A i \in SubIds : LocalCommits(sub'[i]) >= LocalCommits(sub[i])]_vars

\* the commands of sync_one_submodule, as the log names them
SyncCmds ==
    {"status", "add", "commit", "fetch", "pull", "rebase-abort", "ab_fetch",
     "rev-list", "status2", "push", "push-u"}

\* C24: step order of a cycle: whenever a command of the per-submodule
\* bidirectional sync has run in a cycle, the parent fetch of that cycle
\* has run before it.
C24_ParentCheckoutFirst ==
    \A t \in Triggers : \A k \in DOMAIN log[t] :
        (log[t][k][1] \in SubIds /\ log[t][k][2] \in SyncCmds)
        => \E j \in 1..(k - 1) : log[t][j][1] = 0 /\ log[t][j][2] = "fetch"

\* the monitor persists the fingerprint after a process_update that returned
\* True, and nobody has changed the repository since the monitor's tick
MonitorPersists ==
    /\ pc["monitor"] = "write" /\ pc'["monitor"] = "unlock"
    /\ runs["monitor"] = "done"

\* C25: after a monitor cycle that succeeds, with no external change since
\* the tick that started it, the fingerprint the monitor persists, and keeps
\* as last_fp, is the fingerprint of the repository as it is after that
\* cycle, so the next tick finds no difference.
C25_MonitorFingerprintCurrent ==
    [][MonitorPersists
       => /\ fpFile' = <<ComputeFingerprint(remote', head', sub')>>
          /\ lastFp' = fpFile']_vars

(***************************************************************************)
(* The two directory watchers under fairness.  Each watcher is a thread    *)
(* whose `while True` loop sleeps a finite time between polls; flock       *)
(* returns once the lock is free; the external commands terminate; the     *)
(* loop guard window ends as time passes.                                  *)
(***************************************************************************)
LiveExt == 2

LiveFaults == 1

LiveCycles == 2

InitWatchLive ==
    /\ InitWorld
    /\ InitTrees
    /\ sub = CleanSubs
    /\ src = RepoTree(0, CleanSubs)
    /\ pc = [t \in Triggers |-> "idle"]
    /\ strategy = "remote"
    /\ apiBase = 1
    /\ fpFile = <<ComputeFingerprint(0, 0, CleanSubs)>>
    /\ limit = [ext |-> LiveExt, faults |-> LiveFaults, cycles |-> LiveCycles]
    /\ watched = NoFiles
    /\ refs = ClonedRefs

NextWatchLive ==
    \/ \E w \in Watchers : LockStep(w)
    \/ \E w \in Watchers : UpdateStep(w)
    \/ \E w \in Watchers : WatcherStep(w)
    \/ \E w \in Watchers : EditDirectory(w)
    \/ GuardExpires

\* where a trigger runs external commands: sync_source_to_submodule and the
\* steps of process_update
CommandPcs == {"src", "sync", "parent", "publish", "stamp"}

\* the external commands of trigger t terminate: t does not stay inside
\* sync_source_to_submodule or process_update for ever.  Each of these steps
\* can be taken whenever the trigger is at it, so this is their weak fairness.
CommandsTerminate(t) == []<>(pc[t] \notin CommandPcs)

WatchFairness ==
    /\ \A w \in Watchers :
         /\ WF_vars(LockStep(w))
         /\ WF_vars(WatcherPoll(w) \/ WatcherDebounce(w))
         /\ CommandsTerminate(w)
    /\ WF_vars(GuardExpires)

SpecWatchLive == InitWatchLive /\ [][NextWatchLive]_vars /\ WatchFairness

\* the watched directory of w holds what no cycle has copied to its submodule
Unsynced(w) == copied[w] = "stale"

\* the behaviour has used up the locked sections it may hold
CyclesSpent == cycles = limit.cycles

\* C26: no lost edit: every change of a watched directory is eventually
\* followed by a sync cycle of that directory's watcher (unless the
\* behaviour's bound on cycles is reached first), also a change made during
\* a debounce wait or inside the loop-guard window.
C26_NoLostEdit ==
    \A w \in Watchers : Unsynced(w) ~> (pc[w] = "src" \/ CyclesSpent)

\* the monitor's branch for a process_update that returned False
MonitorFails == pc["monitor"] = "failed" /\ pc'["monitor"] = "unlock"

\* the comparison of the monitor's next tick, l.659-660, finds a difference
TickDetects == lastFp # <<ComputeFingerprint(remote, head, sub)>>

\* C27: retry after failure: a monitor cycle that fails leaves the persisted
\* fingerprint untouched and leaves the monitor with a last_fp that differs
\* from the fingerprint of the repository, so that the next tick detects a
\* difference and re-attempts the cycle; also with no fingerprint file on disk.
C27_RetryAfterFailure ==
    [][MonitorFails => fpFile' = fpFile /\ TickDetects']_vars

(***************************************************************************)
(* The monitor and the content watcher under fairness: the two loops that  *)
(* hold the lock between polls.                                            *)
(***************************************************************************)
LockTriggers == {"monitor", "content"}

InitLockLive ==
    /\ InitWorld
    /\ InitTrees
    /\ sub = CleanSubs
    /\ src = RepoTree(0, CleanSubs)
    /\ pc = [t \in Triggers |-> IF t = "monitor" THEN "start" ELSE "idle"]
    /\ strategy = "remote"
    /\ apiBase = 1
    /\ fpFile = <<ComputeFingerprint(0, 0, CleanSubs)>>
    /\ limit = [ext |-> LiveExt, faults |-> LiveFaults, cycles |-> LiveCycles]
    /\ watched = NoFiles
    /\ refs = ClonedRefs

NextLockLive ==
    \/ \E t \in LockTriggers : LockStep(t)
    \/ \E t \in LockTriggers : UpdateStep(t)
    \/ WatcherStep("content")
    \/ MonitorStep
    \/ EditDirectory("content")
    \/ GitEnvironment

LockFairness ==
    /\ \A t \in LockTriggers : WF_vars(LockStep(t)) /\ CommandsTerminate(t)
    /\ WF_vars(WatcherPoll("content") \/ WatcherDebounce("content"))
    /\ WF_vars(MonitorStep)

SpecLockLive == InitLockLive /\ [][NextLockLive]_vars /\ LockFairness

\* trigger t waits in flock for a lock that trigger u holds
Blocked(t, u) == pc[t] = "flock" /\ u \in locked /\ u # t /\ fd[u] = fd[t]

\* C28: the lock is released on every exit path of a locked section: no
\* trigger holds the lock while it is idle, whether its cycle ended in
\* success, in a failure result or in an exception, and a trigger that
\* waits for the lock eventually gets it.
C28_LockReleased ==
    /\ [](\A t \in Triggers : pc[t] = "idle" => t \notin locked /\ fd[t] = 0)
    /\ \A t \in Triggers : (pc[t] = "flock") ~> (t \in locked)

\* a trigger waits for the lock while the holder leaves a cycle that raised
C28_BlockedBehindRaised ==
    \E t \in Triggers, u \in Triggers :
        Blocked(t, u) /\ pc[u] = "unlock" /\ ok[u] = "raised"

\* a step of the daemon changes a working tree, the staging root or the
\* site files of the public root
TreesMutated ==
    /\ ext' = ext
    /\ <<head, sub, src, staging, public>>' # <<head, sub, src, staging, public>>

\* C29: every command that mutates a working tree, the staging root or the
\* public root is run by a trigger that holds the lock: a trigger inside
\* sync_source_to_submodule or process_update holds it, and every step that
\* changes one of these trees is a step of such a trigger's commands.
C29_MutationsUnderLock ==
    /\ [](\A t \in Triggers : pc[t] \in CommandPcs => t \in locked)
    /\ [][TreesMutated
          => \E t \in locked : pc[t] \in CommandPcs /\ log'[t] # log[t]]_vars

\* a cycle has reset the parent and mirrored into the public root while
\* the other loop is awake
C29_MutatedWhileOtherAwake ==
    \E t \in locked, u \in Triggers :
        /\ u # t /\ pc[u] \notin {"idle", "start"}
        /\ Ran(0, "reset", log[t]) /\ Ran(0, "rsync-public", log[t])

(***************************************************************************)
(* The webhook server, the monitor and the content watcher under fairness. *)
(***************************************************************************)
LoopExt == 1

LoopFaults == 1

LoopCycles == 2

LoopTriggers == {"webhook", "monitor", "content"}

InitLoops ==
    /\ InitWorld
    /\ InitTrees
    /\ sub = CleanSubs
    /\ src = RepoTree(0, CleanSubs)
    /\ pc = [t \in Triggers |-> IF t = "monitor" THEN "start" ELSE "idle"]
    /\ strategy = "remote"
    /\ apiBase = 1
    /\ fpFile = <<ComputeFingerprint(0, 0, CleanSubs)>>
    /\ limit = [ext |-> LoopExt, faults |-> LoopFaults, cycles |-> LoopCycles]
    /\ watched = NoFiles
    /\ refs = ClonedRefs

NextLoops ==
    \/ \E t \in LoopTriggers : LockStep(t)
    \/ \E t \in LoopTriggers : UpdateStep(t)
    \/ WebhookStep
    \/ MonitorStep
    \/ WatcherStep("content")
    \/ EditDirectory("content")
    \/ PushToParent

\* the deliveries come when the repository host sends them: no fairness
LoopFairness ==
    /\ \A t \in LoopTriggers : WF_vars(LockStep(t)) /\ CommandsTerminate(t)
    /\ WF_vars(WebhookFingerprint)
    /\ WF_vars(MonitorStep)
    /\ WF_vars(WatcherPoll("content") \/ WatcherDebounce("content"))

SpecLoops == InitLoops /\ [][NextLoops]_vars /\ LoopFairness

\* the cycle of trigger t has met a failure result or an exception
CycleFailed(t) == ok[t] \in {"false", "source-false", "raised"}

\* C30: no sync failure stops a trigger loop: after a failure result or an
\* exception inside a cycle the monitor, the watcher and the webhook handler
\* come back to their polling state, and no trigger is ever anywhere but in
\* its loop.
C30_LoopsSurviveFailure ==
    /\ \A t \in Triggers : CycleFailed(t) ~> (pc[t] = "idle" /\ ok[t] = "none")
    /\ [](\A t \in Triggers :
            pc[t] \in {"start", "idle", "debounce", "open", "flock", "recheck",
                       "compare", "write", "failed", "fp", "unlock"} \cup CommandPcs)

\* a trigger starts a cycle after a cycle in which a command failed
C30_CycleAfterFailure ==
    \E t \in Triggers :
        /\ pc[t] = "open" /\ faults > 0
        /\ \A u \in Triggers : log[u] = <<>> /\ (u # t => pc[u] = "idle")

(***************************************************************************)
(* The watcher's locked section.                                           *)
(***************************************************************************)
\* watcher w leaves sync_source_to_submodule
SourceEnds(w) == pc[w] = "src" /\ pc'[w] # "src"

\* the commands of process_update in lg, the log of watcher w: those of the
\* parent other than the copy, and those of the submodule w does not feed
ProcessUpdateRan(w, lg) ==
    \E k \in DOMAIN lg :
        \/ lg[k][1] = 0 /\ lg[k][2] # "rsync-copy"
        \/ lg[k][1] \in SubIds \ {SubmoduleOf(w)}

\* C31: the watcher's cycle: holding the lock, the watcher first copies the
\* watched directory into its submodule and commits the resulting diff, and
\* calls process_update only when that step returned True; when the step
\* fails, process_update is not called and this iteration publishes nothing.
C31_WatcherCycle ==
    [][\A w \in Watchers :
         /\ SourceEnds(w)
            => /\ w \in locked
               /\ log[w] = <<>> /\ log'[w][1][2] = "rsync-copy"
               /\ public' = public /\ staging' = staging
               /\ pc'[w] \in {"sync", "unlock"}
               /\ pc'[w] = "sync"
                  => /\ log'[w][1][3]
                     /\ ok'[w] = "none"
                     /\ copied'[w] = "current"
                     /\ RsyncCopy(w, sub[SubmoduleOf(w)]).dirty
                        => Ran(SubmoduleOf(w), "commit", log'[w])
               /\ pc'[w] = "unlock"
                  => ok'[w] \in {"source-false", "raised"}
         /\ (pc[w] = "unlock" /\ ok[w] = "source-false")
            => ~ProcessUpdateRan(w, log[w])
         /\ (pc[w] = "unlock" /\ ok[w] = "true") => PublishRan(log[w])]_vars

\* the source step failed after a copy that brought a diff
C31_SourceFailed ==
    \E w \in Watchers :
        /\ pc[w] = "unlock" /\ ok[w] = "source-false"
        /\ Ran(SubmoduleOf(w), "commit", log[w])

(***************************************************************************)
(* The watchers after the last external change: somebody has edited the    *)
(* public tree once, both watchers hold a baseline, and nothing outside    *)
(* the daemon changes anything from then on.                               *)
(***************************************************************************)
ConvergeFaults == 1

ConvergeCycles == 3

InitConverge ==
    /\ remote = 0 /\ head = 0
    /\ sub = CleanSubs
    /\ lockIno = 0
    /\ fd = [t \in Triggers |-> 0]
    /\ locked = {}
    /\ ok = [t \in Triggers |-> "none"]
    /\ log = [t \in Triggers |-> <<>>]
    /\ wrote = [t \in Triggers |-> FALSE]
    /\ lastFp = <<>>
    /\ monFp = <<>>
    /\ lastDigest = [w \in Watchers |-> IF w = "public" THEN "stale" ELSE "current"]
    /\ digest = [w \in Watchers |-> "current"]
    /\ copied = [w \in Watchers |-> IF w = "public" THEN "stale" ELSE "current"]
    /\ resp = 0
    /\ ext = 0 /\ faults = 0 /\ cycles = 0
    /\ runs = [t \in {"webhook", "monitor"} |-> "none"]
    /\ InitTrees
    /\ src = RepoTree(0, CleanSubs)
    /\ pc = [t \in Triggers |-> "idle"]
    /\ strategy = "remote"
    /\ apiBase = 1
    /\ fpFile = <<ComputeFingerprint(0, 0, CleanSubs)>>
    /\ limit = [ext |-> 0, faults |-> ConvergeFaults, cycles |-> ConvergeCycles]
    /\ watched = NoFiles
    /\ refs = ClonedRefs

NextConverge ==
    \/ \E w \in Watchers : LockStep(w)
    \/ \E w \in Watchers : UpdateStep(w)
    \/ \E w \in Watchers : WatcherStep(w)
    \/ GuardExpires

SpecConverge == InitConverge /\ [][NextConverge]_vars /\ WatchFairness

\* the next poll of watcher w would find a difference, or w is in a cycle
Pending(w) == pc[w] # "idle" \/ lastDigest[w] = "stale"

Rebased(i, lg) ==
    GitPullRebase(IF Entry(i, "commit", TRUE) \in Range(lg)
                  THEN GitCommit(sub[i]) ELSE sub[i], TRUE)

\* the local branch <branch> of s holds a commit that origin/<branch> lacks
LocalBranchAhead(s) == IF s.attached THEN s.ahead > 0 ELSE s.lahead > 0

\* how many times the command c of submodule i is in lg
Times(i, c, lg) == Cardinality({k \in DOMAIN lg : lg[k][1] = i /\ lg[k][2] = c})

\* C33: the push rule: after a successful rebase a push is attempted if and
\* only if the local branch is ahead of origin/<branch> or the worktree
\* still has changes; a failed first push is followed by exactly one push
\* with --set-upstream, and when that fails too the sync result is failure.
C33_PushRule ==
    [][WebhookLeaves("sync")
       => \A i \in SubIds :
            Entry(i, "pull", TRUE) \in Range(log'["webhook"])
            => /\ Ran(i, "push", log'["webhook"])
                  <=> (LocalBranchAhead(Rebased(i, log'["webhook"]))
                       \/ Rebased(i, log'["webhook"]).dirty)
               /\ FailedCmd(i, "push", log'["webhook"])
                  <=> Ran(i, "push-u", log'["webhook"])
               /\ Times(i, "push", log'["webhook"]) <= 1
               /\ Times(i, "push-u", log'["webhook"]) <= 1
               /\ FailedCmd(i, "push-u", log'["webhook"]) => ok'["webhook"] = "false"]_vars

(***************************************************************************)
(* Branch detection                                                        *)
(***************************************************************************)
\* everything but the refs of the clone
repoVars ==
    <<gitVars, treeVars, lockVars, strategy, apiBase, limit, watched, monVars,
      dirVars, fpFile, pc, ok, log, wrote, resp, ext, faults, cycles, runs>>

\* somebody changes the refs of the clone: what was detected before was not
\* detected from them
RefsChange(r) ==
    /\ r # [refs EXCEPT !.detected = <<>>, !.failed = {}]
    /\ refs' = [r EXCEPT !.detected = <<>>, !.failed = {}]
    /\ UNCHANGED repoVars

\* git checkout <branch>
GitCheckout(b) == RefsChange([refs EXCEPT !.head = b])

\* git checkout --detach
GitDetach == RefsChange([refs EXCEPT !.head = <<>>])

\* git branch --set-upstream-to / --unset-upstream for branch b
SetUpstream(b, u) == RefsChange([refs EXCEPT !.tracking[b] = u])

\* git remote set-head origin <branch> / -d
RemoteSetHead(h) == RefsChange([refs EXCEPT !.originHead = h])

\* a sync calls detect_branch_for_submodule
DetectBranch(F) ==
    /\ refs' = [refs EXCEPT !.detected = DetectBranchForSubmodule(refs, F),
                            !.failed = F]
    /\ UNCHANGED repoVars

InitBranch ==
    /\ InitDigest
    /\ watched = NoFiles

NextBranch ==
    \/ \E b \in BranchNames : GitCheckout(b)
    \/ GitDetach
    \/ \E b \in BranchNames, u \in Upstreams : SetUpstream(b, u)
    \/ \E h \in BranchNames \cup {<<>>} : RemoteSetHead(h)
    \/ \E F \in SUBSET BranchQueries : DetectBranch(F)

SpecBranch == InitBranch /\ [][NextBranch]_vars

\* the branch the upstream of HEAD's branch names, <<>> when HEAD is detached,
\* the branch has no upstream or the query for it is in F
UpstreamBranch(r, F) ==
    IF r.head # <<>> /\ "upstream" \notin F THEN r.tracking[r.head].name ELSE <<>>

\* the branch HEAD is on, <<>> when there is none or the query is in F
CurrentBranch(r, F) == IF "head" \in F THEN <<>> ELSE r.head

\* the branch the cached origin/HEAD names, likewise
CachedOriginHead(r, F) == IF "origin-head" \in F THEN <<>> ELSE r.originHead

\* C34: branch detection follows a fixed priority: what it returns is the
\* branch of the upstream tracking ref when one is configured, otherwise the
\* current branch when HEAD is on one, otherwise the branch of the cached
\* origin/HEAD, otherwise "main"; a source is used only when every source
\* before it is unavailable.
C34_BranchPriority ==
    refs.detected # <<>> =>
        refs.detected =
            IF UpstreamBranch(refs, refs.failed) # <<>>
            THEN UpstreamBranch(refs, refs.failed)
            ELSE IF CurrentBranch(refs, refs.failed) # <<>>
            THEN CurrentBranch(refs, refs.failed)
            ELSE IF CachedOriginHead(refs, refs.failed) # <<>>
            THEN CachedOriginHead(refs, refs.failed)
            ELSE <<"main">>

\* watcher w leaves the locked section of a cycle that met a failure result
\* or an exception
WatcherFails(w) == pc[w] = "unlock" /\ CycleFailed(w) /\ pc'[w] = "idle"

\* the comparison of the next poll of w, l.549-550, finds a difference
PollDetects(w) == lastDigest[w] = "stale"

\* C35: a watcher cycle that fails is retried: when the source sync or the
\* process_update after it reports failure or raises, the watcher does not
\* take the change for handled, so that its next poll detects the change,
\* which is still there, again.
C35_FailedCycleRetried ==
    [][\A w \in Watchers : WatcherFails(w) => PollDetects(w)']_vars

\* some HTML document of tree holds <script src="/app-config.js"></script>
ReferencesAppConfig(tree) ==
    \E p \in DOMAIN tree : IsHtml(p) /\ ScriptTag \in Range(tree[p])

\* C36: published references resolve: after any successful publish, if some
\* HTML document of the public root references /app-config.js then the
\* file app-config.js is in the public root, for every API base URL, the
\* empty one included.
C36_ReferencesResolve ==
    [][\A t \in Triggers :
         (Mirrors(t) /\ ReferencesAppConfig(public')) => AppConfigPath \in DOMAIN public']_vars

\* C37: publish ordering: the public root is written only by the mirror of
\* a staging root that has been recreated, mirrored in full from the source
\* and mutated; the PublishStamp is written only after that mirror has
\* completed; when either mirror fails the stamp is not written, and when
\* the first mirror fails the public root is not modified.
C37_PublishOrdering ==
    [][/\ public' # public
          => /\ WebhookLeaves("publish")
             /\ Entry(0, "rsync-staging", TRUE) \in Range(log'["webhook"])
             /\ staging' = MutateStaging(RsyncExcludeGit(src, EmptyTree), apiBase)
             /\ public' = staging'
       /\ (stamp' # stamp /\ stamp' = 2)
          => /\ pc["webhook"] = "stamp"
             /\ Entry(0, "rsync-public", TRUE) \in Range(log["webhook"])
             /\ public = staging
       /\ PublishFailed(log'["webhook"]) => stamp' = stamp
       /\ FailedCmd(0, "rsync-staging", log'["webhook"]) => public' = public]_vars

\* C37: a publish over an earlier, different public root has mirrored the
\* mutated staging root into it and has then written the stamp.
C37_StampedAfterMirror ==
    /\ stamp = 2
    /\ Entry(0, "rsync-public", TRUE) \in Range(log["webhook"])
    /\ Entry(0, "stamp", TRUE) \in Range(log["webhook"])
    /\ public = staging
    /\ public # src
    /\ ReferencesAppConfig(public)

(***************************************************************************)
(* The repository fingerprint when its queries fail.                       *)
(***************************************************************************)
\* the commands of compute_fingerprint, in the order it runs them: the fetch
\* of the parent and of the submodules, then the five queries
FingerprintCmds ==
    <<"fetch", "ls-remote", "rev-parse", "submodule-status", "sub-remote-heads", "status">>

\* compute_fingerprint(), the commands of F failing: every command is in a
\* try block of its own, and a query that fails leaves the empty string
\* (<<>>) for its component, the status query the flag 0
ComputeFingerprintWith(F, rem, hd, subs) ==
    LET fp == ComputeFingerprint(rem, hd, subs)
    IN  [remote |-> IF "ls-remote" \in F THEN <<>> ELSE <<fp.remote>>,
         local  |-> IF "rev-parse" \in F THEN <<>> ELSE <<fp.local>>,
         dirty  |-> IF "status" \in F THEN 0 ELSE fp.dirty,
         subs   |-> IF "submodule-status" \in F THEN <<>> ELSE <<fp.subs>>,
         sub_remote_heads |-> IF "sub-remote-heads" \in F THEN <<>>
                              ELSE <<fp.sub_remote_heads>>]

\* the monitor computes the fingerprint, l.659; the log keeps which of the
\* commands failed
FingerprintComputed(F) ==
    /\ pc["monitor"] = "idle"
    /\ monFp' = <<ComputeFingerprintWith(F, remote, head, sub)>>
    /\ log' = [log EXCEPT !["monitor"] =
                  [k \in DOMAIN FingerprintCmds |->
                      Entry(0, FingerprintCmds[k], FingerprintCmds[k] \notin F)]]
    /\ UNCHANGED <<gitVars, treeVars, lockVars, cfgVars, dirVars, lastFp, fpFile, pc,
                   ok, wrote, resp, ext, faults, cycles, runs>>

FpVersions == 1

\* the submodules of the repository states the fingerprint is taken of: as
\* cloned, with the branches checked out, with an edit, behind origin
FpSubs ==
    InitSubs \cup {[CleanSubs EXCEPT ![1] = [@ EXCEPT !.dirty = TRUE]],
                   [CleanSubs EXCEPT ![1] = [@ EXCEPT !.otip = 1]]}

\* a repository that no step changes
InitFingerprint ==
    /\ remote \in 0..FpVersions
    /\ head \in 0..remote
    /\ sub \in FpSubs
    /\ src = RepoTree(head, sub)
    /\ lockIno = 0
    /\ fd = [t \in Triggers |-> 0]
    /\ locked = {}
    /\ ok = [t \in Triggers |-> "none"]
    /\ log = [t \in Triggers |-> <<>>]
    /\ wrote = [t \in Triggers |-> FALSE]
    /\ lastFp = <<>>
    /\ monFp = <<>>
    /\ lastDigest = [w \in Watchers |-> ""]
    /\ digest = [w \in Watchers |-> "current"]
    /\ copied = [w \in Watchers |-> "current"]
    /\ resp = 0
    /\ ext = 0 /\ faults = 0 /\ cycles = 0
    /\ runs = NoRuns
    /\ InitTrees
    /\ pc = [t \in Triggers |-> "idle"]
    /\ strategy = "remote"
    /\ apiBase = 1
    /\ fpFile = <<>>
    /\ limit = [ext |-> 0, faults |-> 0, cycles |-> 0]
    /\ watched = NoFiles
    /\ refs = ClonedRefs

NextFingerprint == \E F \in SUBSET Range(FingerprintCmds) : FingerprintComputed(F)

SpecFingerprint == InitFingerprint /\ [][NextFingerprint]_vars

\* in the fingerprint fp, computed with the commands of lg, the component of
\* every query that failed is empty, the dirty flag 0, and every other
\* component is that of the repository
FailedComponentsEmpty(fp, lg) ==
    LET full == ComputeFingerprint(remote, head, sub)
    IN  /\ fp.remote = IF FailedCmd(0, "ls-remote", lg) THEN <<>> ELSE <<full.remote>>
        /\ fp.local = IF FailedCmd(0, "rev-parse", lg) THEN <<>> ELSE <<full.local>>
        /\ fp.subs = IF FailedCmd(0, "submodule-status", lg) THEN <<>> ELSE <<full.subs>>
        /\ fp.sub_remote_heads = IF FailedCmd(0, "sub-remote-heads", lg) THEN <<>>
                                 ELSE <<full.sub_remote_heads>>
        /\ fp.dirty = IF FailedCmd(0, "status", lg) THEN 0 ELSE full.dirty

\* C38: the fingerprint computation never fails: when the fetch or any of
\* the queries fails it still returns a fingerprint, in which the component
\* of a failed query is empty (the dirty flag 0), and it returns equal
\* fingerprints for equal repository states.
C38_FingerprintTotal ==
    [][/\ log'["monitor"] # <<>>
          => Len(monFp') = 1 /\ FailedComponentsEmpty(monFp'[1], log'["monitor"])
       /\ (monFp # <<>> /\ gitVars' = gitVars) => monFp' = monFp]_vars
====
